---- MODULE Spec2Model ----
(***************************************************************************)
(* A model of the custom-rdbms-node engine: the column/type model, the     *)
(* unique index, the table (insert / find / update / delete), the table    *)
(* registry, the SQL tokenizer and parser, the executors and the JSON      *)
(* persistence codec.                                                      *)
(*                                                                         *)
(* JavaScript values are tagged records, so that 1, '1', true and null are *)
(* four different values, as they are for === and for Map keys.            *)
(* Exceptions are modelled by result records [ok, err, ...] that carry the *)
(* state the object was left in when the exception was thrown.             *)
(***************************************************************************)
EXTENDS Integers, Sequences, FiniteSets, TLC

VARIABLES
    database,   \* DB.database: [loaded, name, tables]; tables: name -> Table
    doc,        \* the durable document: [exists, content, name, tables]
    last,       \* the last call made and its outcome
    saving      \* the save() that has not returned yet: [pc, data, since]

vars == <<database, doc, last, saving>>

(***************************************************************************)
(* Values                                                                  *)
(***************************************************************************)
IntV(n) == [t |-> "Int", n |-> n, s |-> ""]
TextV(s) == [t |-> "Text", n |-> 0, s |-> s]
BoolV(b) == [t |-> "Bool", n |-> IF b THEN 1 ELSE 0, s |-> ""]
Null == [t |-> "Null", n |-> 0, s |-> ""]
Undefined == [t |-> "Undef", n |-> 0, s |-> ""]

Digits == "0123456789"
\* the printable ASCII characters in code-unit order, from the space on (the
\* backquote, which no text of the model holds, is left out)
Ascii == " !\"#$%&'()*+,-./0123456789:;<=>?@ABCDEFGHIJKLMNOPQRSTUVWXYZ[\\]^_abcdefghijklmnopqrstuvwxyz{|}~"

IndexIn(c, str) ==
    LET hits == {i \in 1..Len(str) : SubSeq(str, i, i) = c}
    IN IF hits = {} THEN 0 ELSE CHOOSE i \in hits : \A j \in hits : i <= j

IsDigit(c) == IndexIn(c, Digits) > 0
IsSpace(c) == c \in {" ", "\t", "\n", "\r"}

RECURSIVE NatToString(_)
NatToString(n) ==
    IF n < 10 THEN SubSeq(Digits, n + 1, n + 1)
    ELSE NatToString(n \div 10) \o SubSeq(Digits, (n % 10) + 1, (n % 10) + 1)

\* String(value), as used by coerceType and by object property keys
JsString(v) ==
    CASE v.t = "Int" -> IF v.n < 0 THEN "-" \o NatToString(-v.n) ELSE NatToString(v.n)
      [] v.t = "Text" -> v.s
      [] v.t = "Bool" -> IF v.n = 1 THEN "true" ELSE "false"
      [] v.t = "Null" -> "null"
      [] OTHER -> "undefined"

RECURSIVE DigitsValue(_, _, _)
\* the value of the longest run of digits of str from position i on
DigitsValue(str, i, acc) ==
    IF i <= Len(str) /\ IsDigit(SubSeq(str, i, i))
    THEN DigitsValue(str, i + 1, acc * 10 + (IndexIn(SubSeq(str, i, i), Digits) - 1))
    ELSE acc

RECURSIVE SkipSpaces(_, _)
SkipSpaces(str, i) ==
    IF i <= Len(str) /\ IsSpace(SubSeq(str, i, i)) THEN SkipSpaces(str, i + 1) ELSE i

\* parseInt from the first character that is not white space, at position i
ParseIntFrom(str, i) ==
    LET signed == i <= Len(str) /\ SubSeq(str, i, i) \in {"+", "-"}
        neg == i <= Len(str) /\ SubSeq(str, i, i) = "-"
        j == IF signed THEN i + 1 ELSE i
    IN IF j <= Len(str) /\ IsDigit(SubSeq(str, j, j))
       THEN [nan |-> FALSE,
             n |-> IF neg THEN -DigitsValue(str, j, 0) ELSE DigitsValue(str, j, 0)]
       ELSE [nan |-> TRUE, n |-> 0]

\* parseInt(str, 10): leading white space, an optional sign, then the longest
\* prefix of digits; NaN (nan = TRUE) when there is no digit
ParseInt(str) == ParseIntFrom(str, SkipSpaces(str, 1))

RECURSIVE AllDigits(_, _)
AllDigits(str, i) ==
    IF i > Len(str) THEN TRUE
    ELSE IsDigit(SubSeq(str, i, i)) /\ AllDigits(str, i + 1)

RECURSIVE TrimEnd(_)
TrimEnd(str) ==
    IF Len(str) > 0 /\ IsSpace(SubSeq(str, Len(str), Len(str)))
    THEN TrimEnd(SubSeq(str, 1, Len(str) - 1))
    ELSE str

\* the number a string converts to, body being the string without its
\* trailing white space and i the position of its first other character
StringToNumber(body, i) ==
    LET signed == i <= Len(body) /\ SubSeq(body, i, i) \in {"+", "-"}
        j == IF signed THEN i + 1 ELSE i
    IN IF i > Len(body) THEN [nan |-> FALSE, n |-> 0]
       ELSE IF j <= Len(body) /\ AllDigits(body, j) THEN ParseIntFrom(body, i)
       ELSE [nan |-> TRUE, n |-> 0]

\* ToNumber, for the relational operators: the texts of the model are white
\* space, signed decimal integers or non-numeric words
ToNumber(v) ==
    CASE v.t = "Int" -> [nan |-> FALSE, n |-> v.n]
      [] v.t = "Bool" -> [nan |-> FALSE, n |-> v.n]
      [] v.t = "Null" -> [nan |-> FALSE, n |-> 0]
      [] v.t = "Text" -> StringToNumber(TrimEnd(v.s), SkipSpaces(TrimEnd(v.s), 1))
      [] OTHER -> [nan |-> TRUE, n |-> 0]

RECURSIVE TextLess(_, _, _)
\* a < b for two strings: code units compared from position i on
TextLess(a, b, i) ==
    IF i > Len(b) THEN FALSE
    ELSE IF i > Len(a) THEN TRUE
    ELSE LET ca == IndexIn(SubSeq(a, i, i), Ascii)
             cb == IndexIn(SubSeq(b, i, i), Ascii)
         IN IF ca = cb THEN TextLess(a, b, i + 1) ELSE ca < cb

\* x < y and x <= y for two numbers, false when either is NaN
NumberLess(x, y) == ~x.nan /\ ~y.nan /\ x.n < y.n
NumberLessEq(x, y) == ~x.nan /\ ~y.nan /\ x.n <= y.n

\* a < b as JavaScript's < computes it
JsLess(a, b) ==
    IF a.t = "Text" /\ b.t = "Text" THEN TextLess(a.s, b.s, 1)
    ELSE NumberLess(ToNumber(a), ToNumber(b))

\* a <= b as JavaScript's <= computes it (not (b < a), false on NaN)
JsLessEq(a, b) ==
    IF a.t = "Text" /\ b.t = "Text" THEN ~TextLess(b.s, a.s, 1)
    ELSE NumberLessEq(ToNumber(a), ToNumber(b))

Operators == {"=", "!=", ">", "<", ">=", "<="}

\* the switch on the operator that find, update and delete each carry;
\* an operator outside the six cases is the caller's default branch
Compare(rowValue, operator, value) ==
    CASE operator = "=" -> rowValue = value
      [] operator = "!=" -> rowValue # value
      [] operator = ">" -> JsLess(value, rowValue)
      [] operator = "<" -> JsLess(rowValue, value)
      [] operator = ">=" -> JsLessEq(value, rowValue)
      [] operator = "<=" -> JsLessEq(rowValue, value)
      [] OTHER -> FALSE

Lower == "abcdefghijklmnopqrstuvwxyz"
Upper == "ABCDEFGHIJKLMNOPQRSTUVWXYZ"

RECURSIVE ToUpperCase(_)
ToUpperCase(str) ==
    IF Len(str) = 0 THEN ""
    ELSE LET c == SubSeq(str, 1, 1)
             k == IndexIn(c, Lower)
         IN (IF k > 0 THEN SubSeq(Upper, k, k) ELSE c) \o ToUpperCase(SubSeq(str, 2, Len(str)))

\* the elements of a sequence, as a set
Range(seq) == {seq[i] : i \in 1..Len(seq)}

(***************************************************************************)
(* Column                                                                  *)
(***************************************************************************)
ValidTypes == {"INT", "TEXT", "BOOLEAN"}

\* new Column(name, type, {primaryKey, unique}); fails on an invalid type
NewColumn(name, type, primaryKey, unique) ==
    LET upper == ToUpperCase(type)
    IN [ok |-> upper \in ValidTypes,
        err |-> IF upper \in ValidTypes THEN "" ELSE "InvalidColumnType",
        column |-> [name |-> name, type |-> upper, primaryKey |-> primaryKey,
                    unique |-> unique \/ primaryKey]]

validateType(column, value) ==
    IF value = Null \/ value = Undefined THEN TRUE
    ELSE CASE column.type = "INT" -> value.t = "Int"
           [] column.type = "TEXT" -> value.t = "Text"
           [] column.type = "BOOLEAN" -> value.t = "Bool"
           [] OTHER -> FALSE

\* [ok, v]: ok = FALSE when coerceType throws
coerceType(column, value) ==
    IF value = Null \/ value = Undefined THEN [ok |-> TRUE, v |-> Null]
    ELSE CASE column.type = "INT" ->
                LET parsed == ParseInt(JsString(value))
                IN IF parsed.nan THEN [ok |-> FALSE, v |-> value]
                   ELSE [ok |-> TRUE, v |-> IntV(parsed.n)]
           [] column.type = "TEXT" -> [ok |-> TRUE, v |-> TextV(JsString(value))]
           [] column.type = "BOOLEAN" ->
                IF value.t = "Bool" THEN [ok |-> TRUE, v |-> value]
                ELSE IF value = TextV("true") \/ value = IntV(1)
                THEN [ok |-> TRUE, v |-> BoolV(TRUE)]
                ELSE IF value = TextV("false") \/ value = IntV(0)
                THEN [ok |-> TRUE, v |-> BoolV(FALSE)]
                ELSE [ok |-> FALSE, v |-> value]
           [] OTHER -> [ok |-> TRUE, v |-> value]

ColumnToJSON(column) ==
    [name |-> column.name, type |-> column.type,
     primaryKey |-> column.primaryKey, unique |-> column.unique]

ColumnFromJSON(json) == NewColumn(json.name, json.type, json.primaryKey, json.unique)

(***************************************************************************)
(* Index: indexMap maps a key to one row position (unique and primary-key  *)
(* indexes) or to the positions in insertion order (other indexes).        *)
(***************************************************************************)
EmptyMap == [k \in {} |-> 0]

NullKey == "__NULL__"

\* const key = value === null ? '__NULL__' : value
Key(value) == IF value = Null THEN TextV(NullKey) ELSE value

NewIndex(columnName, isPrimaryKey, isUnique) ==
    [columnName |-> columnName, isPrimaryKey |-> isPrimaryKey,
     isUnique |-> isUnique \/ isPrimaryKey, indexMap |-> EmptyMap]

MapSet(map, key, entry) ==
    [k \in DOMAIN map \cup {key} |-> IF k = key THEN entry ELSE map[k]]

MapDelete(map, key) == [k \in DOMAIN map \ {key} |-> map[k]]

\* [ok, index]: ok = FALSE when add throws the duplicate-value error
IndexAdd(index, value, rowIndex) ==
    LET key == Key(value)
    IN IF index.isUnique \/ index.isPrimaryKey
       THEN IF key \in DOMAIN index.indexMap
            THEN [ok |-> FALSE, index |-> index]
            ELSE [ok |-> TRUE,
                  index |-> [index EXCEPT !.indexMap = MapSet(@, key, rowIndex)]]
       ELSE LET old == IF key \in DOMAIN index.indexMap THEN index.indexMap[key] ELSE <<>>
                new == IF rowIndex \in Range(old) THEN old ELSE Append(old, rowIndex)
            IN [ok |-> TRUE, index |-> [index EXCEPT !.indexMap = MapSet(@, key, new)]]

IndexRemove(index, value, rowIndex) ==
    LET key == Key(value)
    IN IF key \notin DOMAIN index.indexMap THEN index
       ELSE IF index.isUnique \/ index.isPrimaryKey
       THEN [index EXCEPT !.indexMap = MapDelete(@, key)]
       ELSE LET rest == SelectSeq(index.indexMap[key], LAMBDA p : p # rowIndex)
            IN IF Len(rest) = 0
               THEN [index EXCEPT !.indexMap = MapDelete(@, key)]
               ELSE [index EXCEPT !.indexMap = MapSet(@, key, rest)]

\* remove, then add: when add throws, the old entry is already gone
IndexUpdate(index, oldValue, newValue, rowIndex) ==
    IF oldValue = newValue THEN [ok |-> TRUE, index |-> index]
    ELSE IndexAdd(IndexRemove(index, oldValue, rowIndex), newValue, rowIndex)

\* the row positions stored for value, as an array
IndexFind(index, value) ==
    LET key == Key(value)
    IN IF key \notin DOMAIN index.indexMap THEN <<>>
       ELSE IF index.isUnique \/ index.isPrimaryKey THEN <<index.indexMap[key]>>
       ELSE index.indexMap[key]

IndexHas(index, value) == Key(value) \in DOMAIN index.indexMap

(***************************************************************************)
(* Table: [name, columns, rows, indexes].  A row is a function from the    *)
(* column names it holds to values; positions in the indexes count from 0, *)
(* so that position p is rows[p + 1].                                      *)
(***************************************************************************)
ColumnNames(columns) == [i \in 1..Len(columns) |-> columns[i].name]

HasColumn(table, columnName) == \E i \in 1..Len(table.columns) : table.columns[i].name = columnName

\* this.columns.find(col => col.name === columnName), for a name that exists
getColumn(table, columnName) ==
    LET hits == {i \in 1..Len(table.columns) : table.columns[i].name = columnName}
    IN table.columns[CHOOSE i \in hits : \A j \in hits : i <= j]

\* row[column]: undefined for a key the row does not hold
RowGet(row, columnName) == IF columnName \in DOMAIN row THEN row[columnName] ELSE Undefined

\* the names of this.indexes in for-in order: the order of their creation
IndexOrder(table) ==
    SelectSeq(ColumnNames(table.columns), LAMBDA c : c \in DOMAIN table.indexes)

_createIndexes(columns) ==
    [c \in {columns[i].name : i \in {j \in 1..Len(columns) :
                                      columns[j].primaryKey \/ columns[j].unique}} |->
        LET col == columns[CHOOSE i \in 1..Len(columns) : columns[i].name = c]
        IN IF col.primaryKey THEN NewIndex(c, TRUE, TRUE) ELSE NewIndex(c, FALSE, TRUE)]

\* new Table without the primary-key count of _validateSchema
NewTableAnyPrimaryKeys(name, columns) ==
    LET err == IF Len(columns) = 0 THEN "NoColumns"
               ELSE IF Cardinality(Range(ColumnNames(columns))) # Len(columns)
               THEN "DuplicateColumn"
               ELSE ""
    IN [ok |-> err = "", err |-> err,
        table |-> [name |-> name, columns |-> columns, rows |-> <<>>,
                   indexes |-> _createIndexes(columns)]]

\* new Table(name, columns): _validateSchema, then _createIndexes
NewTable(name, columns) ==
    LET primaryKeys == {i \in 1..Len(columns) : columns[i].primaryKey}
        fixed == [i \in 1..Len(columns) |->
                    IF columns[i].primaryKey THEN [columns[i] EXCEPT !.unique = TRUE]
                    ELSE columns[i]]
        err == IF Len(columns) = 0 THEN "NoColumns"
               ELSE IF Cardinality(Range(ColumnNames(columns))) # Len(columns)
               THEN "DuplicateColumn"
               ELSE IF Cardinality(primaryKeys) > 1 THEN "MultiplePrimaryKeys"
               ELSE ""
    IN [ok |-> err = "", err |-> err,
        table |-> [name |-> name, columns |-> fixed, rows |-> <<>>,
                   indexes |-> _createIndexes(fixed)]]

\* the values of the columns a row holds after coerceType, column by column:
\* [ok, v] as coerceType gives it
CoerceRow(table, row) ==
    [i \in {j \in 1..Len(table.columns) : table.columns[j].name \in DOMAIN row} |->
        coerceType(table.columns[i], row[table.columns[i].name])]

\* the column loop of _validateRow over the coerced values, then the check
\* for unknown columns
ValidateCoerced(table, row, coerced) ==
    LET cols == table.columns
        badType == {i \in DOMAIN coerced :
                      ~coerced[i].ok \/ ~validateType(cols[i], coerced[i].v)}
        first == CHOOSE i \in badType : \A j \in badType : i <= j
        out == [c \in DOMAIN row |->
                  IF HasColumn(table, c)
                  THEN coerced[CHOOSE i \in DOMAIN coerced : cols[i].name = c].v
                  ELSE row[c]]
    IN IF \E i \in 1..Len(cols) : cols[i].primaryKey /\ cols[i].name \notin DOMAIN row
       THEN [ok |-> FALSE, err |-> "PrimaryKeyRequired", row |-> row]
       ELSE IF badType # {}
       THEN [ok |-> FALSE,
             err |-> IF coerced[first].ok THEN "TypeMismatch" ELSE "TypeError",
             row |-> row]
       ELSE IF \E c \in DOMAIN row : ~HasColumn(table, c)
       THEN [ok |-> FALSE, err |-> "UnknownColumn", row |-> row]
       ELSE [ok |-> TRUE, err |-> "", row |-> out]

\* [ok, err, row]: the row with every value coerced, or the first error
_validateRow(table, row) == ValidateCoerced(table, row, CoerceRow(table, row))

RECURSIVE AddRowToIndexes(_, _, _, _, _)
\* for (const columnName in indexes) if (columnName in row) add(row[columnName], rowIndex)
\* from the k-th index on; [ok, indexes] with the indexes as the throw left them
AddRowToIndexes(indexes, order, k, row, rowIndex) ==
    IF k > Len(order) THEN [ok |-> TRUE, indexes |-> indexes]
    ELSE IF order[k] \notin DOMAIN row
    THEN AddRowToIndexes(indexes, order, k + 1, row, rowIndex)
    ELSE LET added == IndexAdd(indexes[order[k]], row[order[k]], rowIndex)
         IN IF ~added.ok THEN [ok |-> FALSE, indexes |-> indexes]
            ELSE AddRowToIndexes([indexes EXCEPT ![order[k]] = added.index],
                                 order, k + 1, row, rowIndex)

\* InsertChecks without the loop over the unique columns
InsertChecksPrimaryKeyOnly(table, row) ==
    IF \E i \in 1..Len(table.columns) :
          /\ table.columns[i].primaryKey
          /\ table.columns[i].name \in DOMAIN row
          /\ table.columns[i].name \in DOMAIN table.indexes
          /\ IndexHas(table.indexes[table.columns[i].name], row[table.columns[i].name])
    THEN "DuplicatePrimaryKey"
    ELSE ""

\* the constraint checks of insert that precede the first mutation
InsertChecks(table, row) ==
    LET cols == table.columns
        pk == {i \in 1..Len(cols) : cols[i].primaryKey}
        pkHit == \E i \in pk : /\ cols[i].name \in DOMAIN row
                               /\ cols[i].name \in DOMAIN table.indexes
                               /\ IndexHas(table.indexes[cols[i].name], row[cols[i].name])
        uniqueHit == \E i \in 1..Len(cols) :
                        /\ cols[i].unique
                        /\ cols[i].name \in DOMAIN row
                        /\ cols[i].name \in DOMAIN table.indexes
                        /\ IndexHas(table.indexes[cols[i].name], row[cols[i].name])
    IN IF pkHit THEN "DuplicatePrimaryKey"
       ELSE IF uniqueHit THEN "DuplicateUnique"
       ELSE ""

\* insert after its checks: this.rows.push(row), then the index loop
InsertRow(table, row, added) ==
    [ok |-> added.ok,
     err |-> IF added.ok THEN "" ELSE "DuplicateValue",
     table |-> [table EXCEPT !.rows = Append(@, row), !.indexes = added.indexes],
     ret |-> IF added.ok THEN <<row>> ELSE <<>>]

\* InsertValidated with the row pushed before the constraint checks
InsertPushedFirst(table, valid) ==
    IF ~valid.ok THEN [ok |-> FALSE, err |-> valid.err, table |-> table, ret |-> <<>>]
    ELSE IF InsertChecks(table, valid.row) # ""
    THEN [ok |-> FALSE, err |-> InsertChecks(table, valid.row),
          table |-> [table EXCEPT !.rows = Append(@, valid.row)], ret |-> <<>>]
    ELSE InsertRow(table, valid.row,
                   AddRowToIndexes(table.indexes, IndexOrder(table), 1, valid.row,
                                   Len(table.rows)))

\* insert after _validateRow
InsertValidated(table, valid) ==
    IF ~valid.ok THEN [ok |-> FALSE, err |-> valid.err, table |-> table, ret |-> <<>>]
    ELSE IF InsertChecks(table, valid.row) # ""
    THEN [ok |-> FALSE, err |-> InsertChecks(table, valid.row), table |-> table, ret |-> <<>>]
    ELSE InsertRow(table, valid.row,
                   AddRowToIndexes(table.indexes, IndexOrder(table), 1, valid.row,
                                   Len(table.rows)))

\* Table.insert(rowData): [ok, err, table, ret]
TableInsert(table, rowData) == InsertValidated(table, _validateRow(table, rowData))

\* [ok, err, rows]: the rows a condition selects, by the scan of find
ScanRows(table, condition) ==
    IF Len(table.rows) > 0 /\ condition.operator \notin Operators
    THEN [ok |-> FALSE, err |-> "UnsupportedOperator", rows |-> <<>>]
    ELSE [ok |-> TRUE, err |-> "",
          rows |-> SelectSeq(table.rows,
                     LAMBDA r : Compare(RowGet(r, condition.column),
                                        condition.operator, condition.value))]

EmptyRow == [c \in {} |-> Null]

\* rowIndices.map(idx => ({ ...this.rows[idx] })): spreading the undefined of
\* a position past the end gives an empty object
RowsAt(table, positions) ==
    [k \in 1..Len(positions) |->
        IF positions[k] + 1 \in 1..Len(table.rows) THEN table.rows[positions[k] + 1]
        ELSE EmptyRow]

NoCondition == [present |-> FALSE, column |-> "", operator |-> "", value |-> Null]
Condition(column, operator, value) ==
    [present |-> TRUE, column |-> column, operator |-> operator, value |-> value]

\* Table.find(condition): [ok, err, rows]
TableFind(table, condition) ==
    IF ~condition.present THEN [ok |-> TRUE, err |-> "", rows |-> table.rows]
    ELSE IF ~HasColumn(table, condition.column)
    THEN [ok |-> FALSE, err |-> "ColumnNotFound", rows |-> <<>>]
    ELSE IF condition.operator = "=" /\ condition.column \in DOMAIN table.indexes
    THEN [ok |-> TRUE, err |-> "",
          rows |-> RowsAt(table, IndexFind(table.indexes[condition.column], condition.value))]
    ELSE ScanRows(table, condition)

\* an updates object, as the sequence of its [c, v] entries in insertion order
RECURSIVE ValidateUpdates(_, _, _)
\* the first loop of update, from the k-th entry on: [ok, err, updates]
ValidateUpdates(table, updates, k) ==
    IF k > Len(updates) THEN [ok |-> TRUE, err |-> "", updates |-> updates]
    ELSE IF ~HasColumn(table, updates[k].c)
    THEN [ok |-> FALSE, err |-> "ColumnNotFound", updates |-> updates]
    ELSE LET column == getColumn(table, updates[k].c)
             coerced == coerceType(column, updates[k].v)
         IN IF ~coerced.ok
            THEN [ok |-> FALSE, err |-> "TypeError", updates |-> updates]
            ELSE IF ~validateType(column, coerced.v)
            THEN [ok |-> FALSE, err |-> "TypeMismatch", updates |-> updates]
            ELSE ValidateUpdates(table, [updates EXCEPT ![k].v = coerced.v], k + 1)

\* the duplicate check of update for one matching row: "" or the error
UpdateChecks(table, updates, row) ==
    LET hits == {k \in 1..Len(updates) :
                    LET column == getColumn(table, updates[k].c)
                    IN /\ column.unique \/ column.primaryKey
                       /\ updates[k].v # RowGet(row, updates[k].c)
                       /\ updates[k].c \in DOMAIN table.indexes
                       /\ IndexHas(table.indexes[updates[k].c], updates[k].v)}
        first == CHOOSE k \in hits : \A j \in hits : k <= j
    IN IF hits = {} THEN ""
       ELSE IF getColumn(table, updates[first].c).primaryKey THEN "DuplicatePrimaryKey"
       ELSE "DuplicateUnique"

\* Object.assign(row, updates)
AssignRow(row, updates) ==
    [c \in DOMAIN row \cup {updates[k].c : k \in 1..Len(updates)} |->
        IF \E k \in 1..Len(updates) : updates[k].c = c
        THEN updates[CHOOSE k \in 1..Len(updates) : updates[k].c = c].v
        ELSE row[c]]

RECURSIVE UpdateIndexes(_, _, _, _, _)
\* the index updates of one row, from the k-th entry on: [ok, indexes]
UpdateIndexes(indexes, updates, k, oldRow, rowIndex) ==
    IF k > Len(updates) THEN [ok |-> TRUE, indexes |-> indexes]
    ELSE IF updates[k].c \notin DOMAIN indexes
    THEN UpdateIndexes(indexes, updates, k + 1, oldRow, rowIndex)
    ELSE LET moved == IndexUpdate(indexes[updates[k].c], RowGet(oldRow, updates[k].c),
                                  updates[k].v, rowIndex)
         IN IF ~moved.ok
            THEN [ok |-> FALSE, indexes |-> [indexes EXCEPT ![updates[k].c] = moved.index]]
            ELSE UpdateIndexes([indexes EXCEPT ![updates[k].c] = moved.index],
                               updates, k + 1, oldRow, rowIndex)

\* a row loop of update that takes every row for a match
UpdateMatchesEveryRow(row, condition) == TRUE

\* whether the row loop of update takes row for a match
UpdateMatches(row, condition) ==
    IF ~condition.present THEN TRUE
    ELSE Compare(RowGet(row, condition.column), condition.operator, condition.value)

RECURSIVE UpdateLoop(_, _, _, _, _)
\* the row loop of update, from row i on (i counts from 1): [ok, err, table, ret]
UpdateLoop(table, updates, condition, i, updatedCount) ==
    IF i > Len(table.rows)
    THEN [ok |-> TRUE, err |-> "", table |-> table, ret |-> updatedCount]
    ELSE IF ~UpdateMatches(table.rows[i], condition)
    THEN UpdateLoop(table, updates, condition, i + 1, updatedCount)
    ELSE LET row == table.rows[i]
             check == UpdateChecks(table, updates, row)
             assigned == [table EXCEPT !.rows[i] = AssignRow(row, updates)]
             moved == UpdateIndexes(table.indexes, updates, 1, row, i - 1)
             after == [assigned EXCEPT !.indexes = moved.indexes]
         IN IF check # ""
            THEN [ok |-> FALSE, err |-> check, table |-> table, ret |-> updatedCount]
            ELSE IF ~moved.ok
            THEN [ok |-> FALSE, err |-> "DuplicateValue", table |-> after,
                  ret |-> updatedCount + 1]
            ELSE UpdateLoop(after, updates, condition, i + 1, updatedCount + 1)

\* Table.update whose first loop only looks the columns up: no value is
\* coerced or validated
TableUpdateColumnsOnly(table, updates, condition) ==
    IF \E k \in 1..Len(updates) : ~HasColumn(table, updates[k].c)
    THEN [ok |-> FALSE, err |-> "ColumnNotFound", table |-> table, ret |-> 0]
    ELSE IF condition.present /\ ~TableFind(table, condition).ok
    THEN [ok |-> FALSE, err |-> TableFind(table, condition).err, table |-> table, ret |-> 0]
    ELSE UpdateLoop(table, updates, condition, 1, 0)

\* Table.update(updates, condition): [ok, err, table, ret]
TableUpdate(table, updates, condition) ==
    LET valid == ValidateUpdates(table, updates, 1)
        found == TableFind(table, condition)
    IN IF ~valid.ok THEN [ok |-> FALSE, err |-> valid.err, table |-> table, ret |-> 0]
       ELSE IF condition.present /\ ~found.ok
       THEN [ok |-> FALSE, err |-> found.err, table |-> table, ret |-> 0]
       ELSE UpdateLoop(table, valid.updates, condition, 1, 0)

ClearIndexes(indexes) ==
    [c \in DOMAIN indexes |->
        NewIndex(indexes[c].columnName, indexes[c].isPrimaryKey, indexes[c].isUnique)]

RECURSIVE RebuildLoop(_, _, _, _)
\* the second loop of _rebuildIndexes, from row i on: [ok, indexes]
RebuildLoop(indexes, order, rows, i) ==
    IF i > Len(rows) THEN [ok |-> TRUE, indexes |-> indexes]
    ELSE LET added == AddRowToIndexes(indexes, order, 1, rows[i], i - 1)
         IN IF ~added.ok THEN added
            ELSE RebuildLoop(added.indexes, order, rows, i + 1)

\* Table._rebuildIndexes(): [ok, indexes]
_rebuildIndexes(table) ==
    RebuildLoop(ClearIndexes(table.indexes), IndexOrder(table), table.rows, 1)

\* a splice that removes the last row, whatever the position asked for
RemoveAtEnd(rows, i) == SubSeq(rows, 1, Len(rows) - 1)

RemoveAt(rows, i) == [k \in 1..(Len(rows) - 1) |-> IF k < i THEN rows[k] ELSE rows[k + 1]]

RECURSIVE RemoveRowFromIndexes(_, _, _, _, _)
RemoveRowFromIndexes(indexes, order, k, row, rowIndex) ==
    IF k > Len(order) THEN indexes
    ELSE IF order[k] \notin DOMAIN row
    THEN RemoveRowFromIndexes(indexes, order, k + 1, row, rowIndex)
    ELSE RemoveRowFromIndexes(
            [indexes EXCEPT ![order[k]] = IndexRemove(@, row[order[k]], rowIndex)],
            order, k + 1, row, rowIndex)

RECURSIVE DeleteLoop(_, _, _, _)
\* the row loop of delete, from row i down (i counts from 1): [ok, err, table, ret]
DeleteLoop(table, condition, i, deletedCount) ==
    IF i < 1 THEN [ok |-> TRUE, err |-> "", table |-> table, ret |-> deletedCount]
    ELSE IF ~Compare(RowGet(table.rows[i], condition.column),
                     condition.operator, condition.value)
    THEN DeleteLoop(table, condition, i - 1, deletedCount)
    ELSE LET removed == RemoveRowFromIndexes(table.indexes, IndexOrder(table), 1,
                                             table.rows[i], i - 1)
             spliced == [table EXCEPT !.rows = RemoveAt(@, i), !.indexes = removed]
             rebuilt == _rebuildIndexes(spliced)
             after == [spliced EXCEPT !.indexes = rebuilt.indexes]
         IN IF ~rebuilt.ok
            THEN [ok |-> FALSE, err |-> "DuplicateValue", table |-> after,
                  ret |-> deletedCount + 1]
            ELSE DeleteLoop(after, condition, i - 1, deletedCount + 1)

\* Table.delete(condition): [ok, err, table, ret]
TableDelete(table, condition) ==
    IF ~condition.present
    THEN [ok |-> TRUE, err |-> "",
          table |-> [table EXCEPT !.rows = <<>>, !.indexes = ClearIndexes(@)],
          ret |-> Len(table.rows)]
    ELSE DeleteLoop(table, condition, Len(table.rows), 0)

(***************************************************************************)
(* Database: the table registry                                            *)
(***************************************************************************)
NoTables == [n \in {} |-> 0]

\* this.tables = {} is a plain object: besides the tables put into it, a
\* lookup this.tables[name] finds the properties every object inherits
ObjectPrototypeNames == {"constructor", "toString", "valueOf", "hasOwnProperty"}

\* this.tables[tableName] is truthy
Registered(tables, tableName) ==
    tableName \in DOMAIN tables \/ tableName \in ObjectPrototypeNames

\* a column definition as the parser builds it (a constraint list, or none)
\* or as a caller of createTable writes it (primaryKey / unique flags)
ColumnDef(name, type, constraints) ==
    [name |-> name, type |-> type, hasConstraints |-> Len(constraints) > 0,
     constraints |-> constraints, primaryKey |-> FALSE, unique |-> FALSE]
ColumnDefFlags(name, type, primaryKey, unique) ==
    [name |-> name, type |-> type, hasConstraints |-> FALSE,
     constraints |-> <<>>, primaryKey |-> primaryKey, unique |-> unique]

\* the Column a definition turns into: [ok, err, column]
DefToColumn(def) ==
    LET pk == IF def.hasConstraints
              THEN "PRIMARY KEY" \in Range(def.constraints) \/ "PRIMARY" \in Range(def.constraints)
              ELSE def.primaryKey
        uq == IF def.hasConstraints
              THEN "UNIQUE" \in Range(def.constraints) \/ pk
              ELSE def.unique
    IN NewColumn(def.name, def.type, pk, uq)

\* Database.createTable(tableName, columnDefs): [ok, err, tables]
createTable(tables, tableName, columnDefs) ==
    LET made == [i \in 1..Len(columnDefs) |-> DefToColumn(columnDefs[i])]
        bad == {i \in 1..Len(columnDefs) : ~made[i].ok}
        built == NewTable(tableName, [i \in 1..Len(columnDefs) |-> made[i].column])
    IN IF Registered(tables, tableName)
       THEN [ok |-> FALSE, err |-> "TableExists", tables |-> tables]
       ELSE IF bad # {}
       THEN [ok |-> FALSE, err |-> "InvalidColumnType", tables |-> tables]
       ELSE IF ~built.ok
       THEN [ok |-> FALSE, err |-> built.err, tables |-> tables]
       ELSE [ok |-> TRUE, err |-> "",
             tables |-> [n \in DOMAIN tables \cup {tableName} |->
                            IF n = tableName THEN built.table ELSE tables[n]]]

\* Database.getTable(tableName): [ok, err, isTable]; isTable tells whether
\* the value returned is a Table (an inherited property is not)
getTable(tables, tableName) ==
    IF ~Registered(tables, tableName)
    THEN [ok |-> FALSE, err |-> "TableNotFound", isTable |-> FALSE]
    ELSE [ok |-> TRUE, err |-> "", isTable |-> tableName \in DOMAIN tables]

hasTable(tables, tableName) == Registered(tables, tableName)

\* delete this.tables[tableName] removes an own property only
dropTable(tables, tableName) ==
    IF ~Registered(tables, tableName)
    THEN [ok |-> FALSE, err |-> "TableNotFound", tables |-> tables]
    ELSE [ok |-> TRUE, err |-> "", tables |-> [n \in DOMAIN tables \ {tableName} |-> tables[n]]]

listTables(tables) == DOMAIN tables

(***************************************************************************)
(* Tokenizer.  A token is [type, value]; value is a JavaScript value.      *)
(***************************************************************************)
KEYWORDS ==
    {"SELECT", "FROM", "WHERE", "INSERT", "INTO", "VALUES", "UPDATE", "SET",
     "DELETE", "CREATE", "TABLE", "PRIMARY", "KEY", "UNIQUE", "INT", "TEXT",
     "BOOLEAN", "JOIN", "ON", "AND", "OR", "NOT", "NULL"}

Token(type, value) == [type |-> type, value |-> value]
EofToken == Token("EOF", Null)

CharAt(str, i) == SubSeq(str, i, i)

IsIdentStart(c) == IndexIn(c, Lower) > 0 \/ IndexIn(c, Upper) > 0 \/ c = "_"
IsIdentChar(c) == IsIdentStart(c) \/ IsDigit(c)

\* input.trim()
Trim(str) == LET body == TrimEnd(str) IN SubSeq(body, SkipSpaces(body, 1), Len(body))

RECURSIVE EndOfDigits(_, _)
EndOfDigits(str, i) ==
    IF i <= Len(str) /\ IsDigit(CharAt(str, i)) THEN EndOfDigits(str, i + 1) ELSE i

RECURSIVE EndOfIdentifier(_, _)
EndOfIdentifier(str, i) ==
    IF i <= Len(str) /\ IsIdentChar(CharAt(str, i)) THEN EndOfIdentifier(str, i + 1) ELSE i

RECURSIVE _readString(_, _, _, _)
\* the body of _readString after the opening quote: [value, next]; a string
\* that is not closed runs to the end of the input, and a backslash that ends
\* the input appends the text of null
_readString(str, i, quote, acc) ==
    IF i > Len(str) THEN [value |-> acc, next |-> i]
    ELSE IF CharAt(str, i) = quote THEN [value |-> acc, next |-> i + 1]
    ELSE IF CharAt(str, i) = "\\"
    THEN IF i + 1 > Len(str) THEN _readString(str, i + 2, quote, acc \o "null")
         ELSE LET e == CharAt(str, i + 1)
              IN _readString(str, i + 2, quote,
                             acc \o (IF e = "n" THEN "\n" ELSE IF e = "t" THEN "\t" ELSE e))
    ELSE _readString(str, i + 1, quote, acc \o CharAt(str, i))

\* _readOperator at position i: [value, next]
_readOperator(str, i) ==
    IF i + 1 <= Len(str) /\ SubSeq(str, i, i + 1) \in {"<=", ">=", "!=", "=="}
    THEN [value |-> SubSeq(str, i, i + 1), next |-> i + 2]
    ELSE [value |-> CharAt(str, i), next |-> i + 1]

\* nextToken with the tokenizer at position i: [ok, token, next]
nextToken(str, i) ==
    LET p == SkipSpaces(str, i)
        c == CharAt(str, p)
    IN IF p > Len(str) THEN [ok |-> TRUE, token |-> EofToken, next |-> p]
       ELSE IF IsDigit(c)
       THEN LET e == EndOfDigits(str, p)
            IN [ok |-> TRUE, next |-> e,
                token |-> Token("NUMBER", IntV(ParseInt(SubSeq(str, p, e - 1)).n))]
       ELSE IF c \in {"'", "\""}
       THEN LET r == _readString(str, p + 1, c, "")
            IN [ok |-> TRUE, next |-> r.next, token |-> Token("STRING", TextV(r.value))]
       ELSE IF IsIdentStart(c)
       THEN LET e == EndOfIdentifier(str, p)
                identifier == SubSeq(str, p, e - 1)
                upper == ToUpperCase(identifier)
            IN [ok |-> TRUE, next |-> e,
                token |-> IF upper \in KEYWORDS THEN Token("KEYWORD", TextV(upper))
                          ELSE Token("IDENTIFIER", TextV(identifier))]
       ELSE IF c \in {"=", "<", ">", "!"}
       THEN LET r == _readOperator(str, p)
            IN [ok |-> TRUE, next |-> r.next, token |-> Token("OPERATOR", TextV(r.value))]
       ELSE IF c \in {"*", ".", "(", ")", ",", ";"}
       THEN [ok |-> TRUE, next |-> p + 1, token |-> Token("PUNCTUATION", TextV(c))]
       ELSE [ok |-> FALSE, token |-> EofToken, next |-> p]

RECURSIVE TokenizeFrom(_, _, _)
TokenizeFrom(str, i, tokens) ==
    LET r == nextToken(str, i)
    IN IF ~r.ok THEN [ok |-> FALSE, err |-> "UnexpectedCharacter", tokens |-> tokens]
       ELSE IF r.token.type = "EOF"
       THEN [ok |-> TRUE, err |-> "", tokens |-> Append(tokens, r.token)]
       ELSE TokenizeFrom(str, r.next, Append(tokens, r.token))

\* new Tokenizer(input).tokenize(): [ok, err, tokens]
tokenize(input) == TokenizeFrom(Trim(input), 1, <<>>)

(***************************************************************************)
(* Parser.  Positions count tokens from 1; every production returns        *)
(* [ok, pos, ...] with ok = FALSE where the code throws.                   *)
(***************************************************************************)
\* this.currentToken with the parser at position pos
Cur(tokens, pos) == IF pos <= Len(tokens) THEN tokens[pos] ELSE EofToken

\* _match(type, value); value "" stands for no value given
_match(tokens, pos, type, value) ==
    /\ Cur(tokens, pos).type = type
    /\ value = "" \/ Cur(tokens, pos).value = TextV(value)

NoJoin == [present |-> FALSE, type |-> "", table |-> "", left |-> "", right |-> ""]

Ast(type, tableName, columns, values, updates, where, join) ==
    [type |-> type, tableName |-> tableName, columns |-> columns, values |-> values,
     updates |-> updates, where |-> where, join |-> join]
NoAst == Ast("", "", <<>>, <<>>, <<>>, NoCondition, NoJoin)

RECURSIVE MoreColumns(_, _, _)
\* the while loop of _parseColumnList
MoreColumns(tokens, pos, columns) ==
    IF ~_match(tokens, pos, "PUNCTUATION", ",")
    THEN [ok |-> TRUE, pos |-> pos, columns |-> columns]
    ELSE IF ~_match(tokens, pos + 1, "IDENTIFIER", "")
    THEN [ok |-> FALSE, pos |-> pos + 1, columns |-> columns]
    ELSE MoreColumns(tokens, pos + 2, Append(columns, Cur(tokens, pos + 1).value.s))

_parseColumnList(tokens, pos) ==
    IF _match(tokens, pos, "PUNCTUATION", "*")
    THEN [ok |-> TRUE, pos |-> pos + 1, columns |-> <<"*">>]
    ELSE IF ~_match(tokens, pos, "IDENTIFIER", "")
    THEN [ok |-> FALSE, pos |-> pos, columns |-> <<>>]
    ELSE MoreColumns(tokens, pos + 1, <<Cur(tokens, pos).value.s>>)

\* a literal of a WHERE, VALUES or SET clause: [ok, pos, value]
ParseLiteral(tokens, pos) ==
    IF _match(tokens, pos, "NUMBER", "") \/ _match(tokens, pos, "STRING", "")
    THEN [ok |-> TRUE, pos |-> pos + 1, value |-> Cur(tokens, pos).value]
    ELSE IF _match(tokens, pos, "KEYWORD", "NULL")
    THEN [ok |-> TRUE, pos |-> pos + 1, value |-> Null]
    ELSE [ok |-> FALSE, pos |-> pos, value |-> Null]

_parseWhere(tokens, pos) ==
    IF ~_match(tokens, pos, "KEYWORD", "WHERE")
    THEN [ok |-> TRUE, pos |-> pos, where |-> NoCondition]
    ELSE IF ~_match(tokens, pos + 1, "IDENTIFIER", "") \/ ~_match(tokens, pos + 2, "OPERATOR", "")
    THEN [ok |-> FALSE, pos |-> pos + 1, where |-> NoCondition]
    ELSE LET lit == ParseLiteral(tokens, pos + 3)
         IN [ok |-> lit.ok, pos |-> lit.pos,
             where |-> Condition(Cur(tokens, pos + 1).value.s,
                                 Cur(tokens, pos + 2).value.s, lit.value)]

_parseJoin(tokens, pos) ==
    IF ~_match(tokens, pos, "KEYWORD", "JOIN")
    THEN [ok |-> TRUE, pos |-> pos, join |-> NoJoin]
    ELSE IF /\ _match(tokens, pos + 1, "IDENTIFIER", "")
            /\ _match(tokens, pos + 2, "KEYWORD", "ON")
            /\ _match(tokens, pos + 3, "IDENTIFIER", "")
            /\ _match(tokens, pos + 4, "OPERATOR", "=")
            /\ _match(tokens, pos + 5, "IDENTIFIER", "")
    THEN [ok |-> TRUE, pos |-> pos + 6,
          join |-> [present |-> TRUE, type |-> "INNER",
                    table |-> Cur(tokens, pos + 1).value.s,
                    left |-> Cur(tokens, pos + 3).value.s,
                    right |-> Cur(tokens, pos + 5).value.s]]
    ELSE [ok |-> FALSE, pos |-> pos, join |-> NoJoin]

RECURSIVE ParseConstraints(_, _, _)
\* the constraint loop of _parseCreateTable: [pos, constraints]
ParseConstraints(tokens, pos, constraints) ==
    IF /\ Cur(tokens, pos).type = "KEYWORD"
       /\ Cur(tokens, pos).value.s \in {"PRIMARY", "KEY", "UNIQUE"}
    THEN ParseConstraints(tokens, pos + 1, Append(constraints, Cur(tokens, pos).value.s))
    ELSE [pos |-> pos, constraints |-> constraints]

RECURSIVE ParseColumnDefs(_, _, _)
\* the column loop of _parseCreateTable, up to the closing parenthesis
ParseColumnDefs(tokens, pos, columns) ==
    IF _match(tokens, pos, "PUNCTUATION", ")")
    THEN [ok |-> TRUE, pos |-> pos + 1, columns |-> columns]
    ELSE LET p == IF Len(columns) > 0 THEN pos + 1 ELSE pos
             cons == ParseConstraints(tokens, p + 2, <<>>)
         IN IF \/ Len(columns) > 0 /\ ~_match(tokens, pos, "PUNCTUATION", ",")
               \/ ~_match(tokens, p, "IDENTIFIER", "")
               \/ ~_match(tokens, p + 1, "KEYWORD", "")
            THEN [ok |-> FALSE, pos |-> pos, columns |-> columns]
            ELSE ParseColumnDefs(tokens, cons.pos,
                    Append(columns, ColumnDef(Cur(tokens, p).value.s,
                                              Cur(tokens, p + 1).value.s,
                                              cons.constraints)))

_parseCreateTable(tokens, pos) ==
    IF /\ _match(tokens, pos, "KEYWORD", "CREATE")
       /\ _match(tokens, pos + 1, "KEYWORD", "TABLE")
       /\ _match(tokens, pos + 2, "IDENTIFIER", "")
       /\ _match(tokens, pos + 3, "PUNCTUATION", "(")
    THEN LET defs == ParseColumnDefs(tokens, pos + 4, <<>>)
         IN [ok |-> defs.ok, pos |-> defs.pos,
             ast |-> Ast("CREATE_TABLE", Cur(tokens, pos + 2).value.s, defs.columns,
                         <<>>, <<>>, NoCondition, NoJoin)]
    ELSE [ok |-> FALSE, pos |-> pos, ast |-> NoAst]

_parseSelect(tokens, pos) ==
    LET cols == _parseColumnList(tokens, pos + 1)
        join == _parseJoin(tokens, cols.pos + 2)
        where == _parseWhere(tokens, join.pos)
    IN IF /\ _match(tokens, pos, "KEYWORD", "SELECT")
          /\ cols.ok
          /\ _match(tokens, cols.pos, "KEYWORD", "FROM")
          /\ _match(tokens, cols.pos + 1, "IDENTIFIER", "")
          /\ join.ok
          /\ where.ok
       THEN [ok |-> TRUE, pos |-> where.pos,
             ast |-> Ast("SELECT", Cur(tokens, cols.pos + 1).value.s, cols.columns,
                         <<>>, <<>>, where.where, join.join)]
       ELSE [ok |-> FALSE, pos |-> pos, ast |-> NoAst]

RECURSIVE ParseValues(_, _, _)
\* the value loop of _parseInsert, up to the closing parenthesis
ParseValues(tokens, pos, values) ==
    IF _match(tokens, pos, "PUNCTUATION", ")")
    THEN [ok |-> TRUE, pos |-> pos + 1, values |-> values]
    ELSE LET p == IF Len(values) > 0 THEN pos + 1 ELSE pos
             lit == ParseLiteral(tokens, p)
         IN IF (Len(values) > 0 /\ ~_match(tokens, pos, "PUNCTUATION", ",")) \/ ~lit.ok
            THEN [ok |-> FALSE, pos |-> pos, values |-> values]
            ELSE ParseValues(tokens, lit.pos, Append(values, lit.value))

_parseInsert(tokens, pos) ==
    LET listed == _match(tokens, pos + 3, "PUNCTUATION", "(")
        cols == IF listed THEN _parseColumnList(tokens, pos + 4)
                ELSE [ok |-> TRUE, pos |-> pos + 3, columns |-> <<>>]
        p == IF listed THEN cols.pos + 1 ELSE cols.pos
        vals == ParseValues(tokens, p + 2, <<>>)
    IN IF /\ _match(tokens, pos, "KEYWORD", "INSERT")
          /\ _match(tokens, pos + 1, "KEYWORD", "INTO")
          /\ _match(tokens, pos + 2, "IDENTIFIER", "")
          /\ cols.ok
          /\ listed => _match(tokens, cols.pos, "PUNCTUATION", ")")
          /\ _match(tokens, p, "KEYWORD", "VALUES")
          /\ _match(tokens, p + 1, "PUNCTUATION", "(")
          /\ vals.ok
       THEN [ok |-> TRUE, pos |-> vals.pos,
             ast |-> Ast("INSERT", Cur(tokens, pos + 2).value.s, cols.columns,
                         vals.values, <<>>, NoCondition, NoJoin)]
       ELSE [ok |-> FALSE, pos |-> pos, ast |-> NoAst]

\* updates[column] = value on an object kept as its entries in insertion order
UpdatesPut(updates, column, value) ==
    IF \E k \in 1..Len(updates) : updates[k].c = column
    THEN [k \in 1..Len(updates) |->
            IF updates[k].c = column THEN [c |-> column, v |-> value] ELSE updates[k]]
    ELSE Append(updates, [c |-> column, v |-> value])

RECURSIVE ParseAssignments(_, _, _, _)
\* the SET loop of _parseUpdate, up to WHERE or the end of the input
ParseAssignments(tokens, pos, updates, first) ==
    IF _match(tokens, pos, "KEYWORD", "WHERE") \/ Cur(tokens, pos).type = "EOF"
    THEN [ok |-> TRUE, pos |-> pos, updates |-> updates]
    ELSE LET p == IF first THEN pos ELSE pos + 1
             lit == ParseLiteral(tokens, p + 2)
         IN IF \/ ~first /\ ~_match(tokens, pos, "PUNCTUATION", ",")
               \/ ~_match(tokens, p, "IDENTIFIER", "")
               \/ ~_match(tokens, p + 1, "OPERATOR", "=")
               \/ ~lit.ok
            THEN [ok |-> FALSE, pos |-> pos, updates |-> updates]
            ELSE ParseAssignments(tokens, lit.pos,
                                  UpdatesPut(updates, Cur(tokens, p).value.s, lit.value),
                                  FALSE)

_parseUpdate(tokens, pos) ==
    LET sets == ParseAssignments(tokens, pos + 3, <<>>, TRUE)
        where == _parseWhere(tokens, sets.pos)
    IN IF /\ _match(tokens, pos, "KEYWORD", "UPDATE")
          /\ _match(tokens, pos + 1, "IDENTIFIER", "")
          /\ _match(tokens, pos + 2, "KEYWORD", "SET")
          /\ sets.ok
          /\ where.ok
       THEN [ok |-> TRUE, pos |-> where.pos,
             ast |-> Ast("UPDATE", Cur(tokens, pos + 1).value.s, <<>>, <<>>,
                         sets.updates, where.where, NoJoin)]
       ELSE [ok |-> FALSE, pos |-> pos, ast |-> NoAst]

_parseDelete(tokens, pos) ==
    LET where == _parseWhere(tokens, pos + 3)
    IN IF /\ _match(tokens, pos, "KEYWORD", "DELETE")
          /\ _match(tokens, pos + 1, "KEYWORD", "FROM")
          /\ _match(tokens, pos + 2, "IDENTIFIER", "")
          /\ where.ok
       THEN [ok |-> TRUE, pos |-> where.pos,
             ast |-> Ast("DELETE", Cur(tokens, pos + 2).value.s, <<>>, <<>>, <<>>,
                         where.where, NoJoin)]
       ELSE [ok |-> FALSE, pos |-> pos, ast |-> NoAst]

\* Parser.parse() over the tokens of a statement: [ok, err, pos, ast]
ParseTokens(tokens) ==
    LET first == Cur(tokens, 1)
        r == CASE first.value = TextV("CREATE") -> _parseCreateTable(tokens, 1)
               [] first.value = TextV("SELECT") -> _parseSelect(tokens, 1)
               [] first.value = TextV("INSERT") -> _parseInsert(tokens, 1)
               [] first.value = TextV("UPDATE") -> _parseUpdate(tokens, 1)
               [] first.value = TextV("DELETE") -> _parseDelete(tokens, 1)
               [] OTHER -> [ok |-> FALSE, pos |-> 1, ast |-> NoAst]
    IN IF Len(tokens) = 0 \/ first.type = "EOF"
       THEN [ok |-> FALSE, err |-> "EmptyQuery", pos |-> 1, ast |-> NoAst]
       ELSE IF first.type # "KEYWORD"
       THEN [ok |-> FALSE, err |-> "ExpectedKeyword", pos |-> 1, ast |-> NoAst]
       ELSE IF first.value.s \notin {"CREATE", "SELECT", "INSERT", "UPDATE", "DELETE"}
       THEN [ok |-> FALSE, err |-> "UnsupportedStatement", pos |-> 1, ast |-> NoAst]
       ELSE [ok |-> r.ok, err |-> IF r.ok THEN "" ELSE "ParseError", pos |-> r.pos,
             ast |-> r.ast]

\* new Parser(sql).parse(): the constructor tokenizes, parse() builds the AST
Parse(sql) ==
    LET lexed == tokenize(sql)
    IN IF ~lexed.ok THEN [ok |-> FALSE, err |-> lexed.err, pos |-> 1, ast |-> NoAst]
       ELSE ParseTokens(lexed.tokens)

(***************************************************************************)
(* Executors.  Each returns [ok, err, tables, ret].                        *)
(***************************************************************************)
Outcome(ok, err, tables, ret) == [ok |-> ok, err |-> err, tables |-> tables, ret |-> ret]

\* the object built by row[columns[i]] = values[i]: a later entry of a
\* repeated name overwrites the earlier one
RowOf(names, values) ==
    [c \in Range(names) |->
        values[CHOOSE i \in 1..Len(names) :
                  names[i] = c /\ \A j \in 1..Len(names) : names[j] = c => j <= i]]

\* the outcome of a statement that called a method of one table
TableOutcome(tables, tableName, r) ==
    Outcome(r.ok, r.err, [tables EXCEPT ![tableName] = r.table], r.ret)

\* the column names an INSERT assigns: the listed ones, or all of the table
InsertNames(ast, table) ==
    IF Len(ast.columns) = 0 THEN ColumnNames(table.columns) ELSE ast.columns

executeInsert(ast, tables) ==
    IF ~getTable(tables, ast.tableName).ok THEN Outcome(FALSE, "TableNotFound", tables, <<>>)
    ELSE IF ~getTable(tables, ast.tableName).isTable
    THEN Outcome(FALSE, "TypeError", tables, <<>>)
    ELSE IF Len(InsertNames(ast, tables[ast.tableName])) # Len(ast.values)
    THEN Outcome(FALSE, "ColumnCountMismatch", tables, <<>>)
    ELSE TableOutcome(tables, ast.tableName,
                      TableInsert(tables[ast.tableName],
                                  RowOf(InsertNames(ast, tables[ast.tableName]), ast.values)))

executeUpdate(ast, tables) ==
    IF ~getTable(tables, ast.tableName).ok THEN Outcome(FALSE, "TableNotFound", tables, 0)
    ELSE IF ~ast.where.present THEN Outcome(FALSE, "UpdateWithoutWhere", tables, 0)
    ELSE IF ~getTable(tables, ast.tableName).isTable
    THEN Outcome(FALSE, "TypeError", tables, 0)
    ELSE TableOutcome(tables, ast.tableName,
                      TableUpdate(tables[ast.tableName], ast.updates, ast.where))

\* executeDelete without the test for a WHERE clause
executeDeleteAnyCondition(ast, tables) ==
    IF ~getTable(tables, ast.tableName).ok THEN Outcome(FALSE, "TableNotFound", tables, 0)
    ELSE IF ~getTable(tables, ast.tableName).isTable
    THEN Outcome(FALSE, "TypeError", tables, 0)
    ELSE TableOutcome(tables, ast.tableName, TableDelete(tables[ast.tableName], ast.where))

executeDelete(ast, tables) ==
    IF ~getTable(tables, ast.tableName).ok THEN Outcome(FALSE, "TableNotFound", tables, 0)
    ELSE IF ~ast.where.present THEN Outcome(FALSE, "DeleteWithoutWhere", tables, 0)
    ELSE IF ~getTable(tables, ast.tableName).isTable
    THEN Outcome(FALSE, "TypeError", tables, 0)
    ELSE TableOutcome(tables, ast.tableName, TableDelete(tables[ast.tableName], ast.where))

\* a joined row: every field of both rows under table.column; the right
\* table's fields are written last
_createJoinedRow(leftRow, rightRow, leftTableName, rightTableName) ==
    LET leftKeys == {leftTableName \o "." \o c : c \in DOMAIN leftRow}
        rightKeys == {rightTableName \o "." \o c : c \in DOMAIN rightRow}
    IN [k \in leftKeys \cup rightKeys |->
          IF k \in rightKeys
          THEN rightRow[CHOOSE c \in DOMAIN rightRow : rightTableName \o "." \o c = k]
          ELSE leftRow[CHOOSE c \in DOMAIN leftRow : leftTableName \o "." \o c = k]]

\* the truthiness that || tests
Truthy(v) ==
    CASE v.t = "Int" -> v.n # 0
      [] v.t = "Text" -> v.s # ""
      [] v.t = "Bool" -> v.n = 1
      [] OTHER -> FALSE

\* the value _projectColumns finds for one requested column
ProjectedValue(joinedRow, col, leftTableName, rightTableName) ==
    IF IndexIn(".", col) > 0 THEN RowGet(joinedRow, col)
    ELSE LET l == RowGet(joinedRow, leftTableName \o "." \o col)
         IN IF Truthy(l) THEN l ELSE RowGet(joinedRow, rightTableName \o "." \o col)

\* [ok, row]
_projectColumns(joinedRow, columns, leftTableName, rightTableName) ==
    IF "*" \in Range(columns) THEN [ok |-> TRUE, row |-> joinedRow]
    ELSE IF \E i \in 1..Len(columns) :
               ProjectedValue(joinedRow, columns[i], leftTableName, rightTableName) = Undefined
    THEN [ok |-> FALSE, row |-> EmptyRow]
    ELSE [ok |-> TRUE,
          row |-> [c \in Range(columns) |->
                      ProjectedValue(joinedRow, c, leftTableName, rightTableName)]]

_matchesWhere(row, where) == Compare(RowGet(row, where.column), where.operator, where.value)

\* the (left, right) pairs of row positions the join strategy pairs up, in
\* the order the loops visit them
JoinPairs(leftTable, rightTable, leftColumn, rightColumn) ==
    LET nl == Len(leftTable.rows)
        nr == Len(rightTable.rows)
        useIndexJoin == rightColumn \in DOMAIN rightTable.indexes
        matches(i) ==
            IF useIndexJoin
            THEN IndexFind(rightTable.indexes[rightColumn], RowGet(leftTable.rows[i], leftColumn))
            ELSE SelectSeq([j \in 1..nr |-> j - 1],
                           LAMBDA p : RowGet(leftTable.rows[i], leftColumn)
                                      = RowGet(rightTable.rows[p + 1], rightColumn))
        F[i \in 0..nl] ==
            IF i = 0 THEN <<>>
            ELSE F[i - 1] \o [k \in 1..Len(matches(i)) |-> <<i, matches(i)[k] + 1>>]
    IN F[nl]

executeJoin(ast, tables) ==
    IF ~ast.join.present THEN Outcome(FALSE, "NoJoinClause", tables, <<>>)
    ELSE IF ~getTable(tables, ast.tableName).ok \/ ~getTable(tables, ast.join.table).ok
    THEN Outcome(FALSE, "TableNotFound", tables, <<>>)
    ELSE IF ~getTable(tables, ast.tableName).isTable \/ ~getTable(tables, ast.join.table).isTable
    THEN Outcome(FALSE, "TypeError", tables, <<>>)
    ELSE LET leftTable == tables[ast.tableName]
             rightTable == tables[ast.join.table]
             pairs == JoinPairs(leftTable, rightTable, ast.join.left, ast.join.right)
             rightRow(k) == IF pairs[k][2] \in 1..Len(rightTable.rows)
                            THEN rightTable.rows[pairs[k][2]] ELSE EmptyRow
             joined == [k \in 1..Len(pairs) |->
                          _createJoinedRow(leftTable.rows[pairs[k][1]], rightRow(k),
                                           ast.tableName, ast.join.table)]
             kept == SelectSeq(joined, LAMBDA r : ~ast.where.present \/ _matchesWhere(r, ast.where))
             projected == [k \in 1..Len(kept) |->
                             _projectColumns(kept[k], ast.columns, ast.tableName, ast.join.table)]
         IN IF ~HasColumn(leftTable, ast.join.left) \/ ~HasColumn(rightTable, ast.join.right)
            THEN Outcome(FALSE, "ColumnNotFound", tables, <<>>)
            ELSE IF \E k \in 1..Len(projected) : ~projected[k].ok
            THEN Outcome(FALSE, "ColumnNotFound", tables, <<>>)
            ELSE Outcome(TRUE, "", tables, [k \in 1..Len(projected) |-> projected[k].row])

\* the projection of executeSelect over the rows find returned
SelectFound(ast, tables, found) ==
    IF ~found.ok THEN Outcome(FALSE, found.err, tables, <<>>)
    ELSE IF "*" \in Range(ast.columns) THEN Outcome(TRUE, "", tables, found.rows)
    ELSE IF \E k \in 1..Len(found.rows) :
               \E i \in 1..Len(ast.columns) : ast.columns[i] \notin DOMAIN found.rows[k]
    THEN Outcome(FALSE, "ColumnNotFound", tables, <<>>)
    ELSE Outcome(TRUE, "", tables,
                 [k \in 1..Len(found.rows) |->
                    [c \in Range(ast.columns) |-> found.rows[k][c]]])

executeSelect(ast, tables) ==
    IF ~getTable(tables, ast.tableName).ok THEN Outcome(FALSE, "TableNotFound", tables, <<>>)
    ELSE IF ast.join.present THEN executeJoin(ast, tables)
    ELSE IF ~getTable(tables, ast.tableName).isTable
    THEN Outcome(FALSE, "TypeError", tables, <<>>)
    ELSE SelectFound(ast, tables, TableFind(tables[ast.tableName], ast.where))

\* the switch of DB.execute on the type of a parsed statement
Dispatch(ast, tables) ==
    CASE ast.type = "CREATE_TABLE" ->
            LET r == createTable(tables, ast.tableName, ast.columns)
            IN Outcome(r.ok, r.err, r.tables, 0)
      [] ast.type = "SELECT" -> executeSelect(ast, tables)
      [] ast.type = "INSERT" -> executeInsert(ast, tables)
      [] ast.type = "UPDATE" -> executeUpdate(ast, tables)
      [] ast.type = "DELETE" -> executeDelete(ast, tables)
      [] OTHER -> Outcome(FALSE, "UnsupportedQueryType", tables, 0)

(***************************************************************************)
(* Persistence.  The document is the value JSON.parse reads back from the  *)
(* text JSON.stringify wrote: Map keys have become property names          *)
(* (strings), Int / Text / Boolean / Null values are kept as they are.     *)
(***************************************************************************)
\* Index.toJSON(): indexData[key] = value turns every key into a string
IndexToJSON(index) ==
    [columnName |-> index.columnName, isPrimaryKey |-> index.isPrimaryKey,
     isUnique |-> index.isUnique,
     indexMap |-> [name \in {JsString(k) : k \in DOMAIN index.indexMap} |->
                     index.indexMap[CHOOSE k \in DOMAIN index.indexMap : JsString(k) = name]]]

\* Index.fromJSON(json): the keys come back as the strings they were written as
IndexFromJSON(json) ==
    [NewIndex(json.columnName, json.isPrimaryKey, json.isUnique) EXCEPT
        !.indexMap = [k \in {TextV(name) : name \in DOMAIN json.indexMap} |->
                         json.indexMap[k.s]]]

TableToJSON(table) ==
    [name |-> table.name,
     columns |-> [i \in 1..Len(table.columns) |-> ColumnToJSON(table.columns[i])],
     rows |-> table.rows,
     indexes |-> [c \in DOMAIN table.indexes |-> IndexToJSON(table.indexes[c])]]

\* Table.fromJSON with the indexes read from the serialized index payload
TableFromJSONStoredIndexes(json) ==
    [ok |-> TRUE, err |-> "",
     table |-> [NewTable(json.name,
                         [i \in 1..Len(json.columns) |->
                             ColumnFromJSON(json.columns[i]).column]).table
                EXCEPT !.rows = json.rows,
                       !.indexes = [c \in DOMAIN json.indexes |->
                                       IndexFromJSON(json.indexes[c])]]]

\* Table.fromJSON(json): [ok, err, table]; the indexes are rebuilt from the rows
TableFromJSON(json) ==
    LET made == [i \in 1..Len(json.columns) |-> ColumnFromJSON(json.columns[i])]
        built == NewTable(json.name, [i \in 1..Len(json.columns) |-> made[i].column])
        withRows == [built.table EXCEPT !.rows = json.rows]
        rebuilt == RebuildLoop(_createIndexes(withRows.columns), IndexOrder(withRows),
                               withRows.rows, 1)
    IN IF \E i \in 1..Len(json.columns) : ~made[i].ok
       THEN [ok |-> FALSE, err |-> "InvalidColumnType", table |-> built.table]
       ELSE IF ~built.ok THEN [ok |-> FALSE, err |-> built.err, table |-> built.table]
       ELSE [ok |-> rebuilt.ok, err |-> IF rebuilt.ok THEN "" ELSE "DuplicateValue",
             table |-> [withRows EXCEPT !.indexes = rebuilt.indexes]]

NewDatabase == [loaded |-> TRUE, name |-> "default", tables |-> NoTables]
NoDatabase == [loaded |-> FALSE, name |-> "", tables |-> NoTables]

\* the content of a file is "json" when JSON.parse reads it, "garbage" when
\* it is no JSON text, "unreadable" when readFile fails on it
DatabaseToJSON(db) ==
    [exists |-> TRUE, content |-> "json", name |-> db.name,
     tables |-> [n \in DOMAIN db.tables |-> TableToJSON(db.tables[n])]]

\* Database.fromJSON(json): [ok, err, database]
DatabaseFromJSON(json) ==
    LET read == [n \in DOMAIN json.tables |-> TableFromJSON(json.tables[n])]
    IN IF \E n \in DOMAIN read : ~read[n].ok
       THEN [ok |-> FALSE, err |-> "LoadError", database |-> NoDatabase]
       ELSE [ok |-> TRUE, err |-> "",
             database |-> [loaded |-> TRUE, name |-> json.name,
                           tables |-> [n \in DOMAIN read |-> read[n].table]]]

\* Storage.load() returning a new Database whenever the file cannot be loaded
StorageLoadLenient(document) ==
    IF ~document.exists \/ document.content # "json" \/ ~DatabaseFromJSON(document).ok
    THEN [ok |-> TRUE, err |-> "", database |-> NewDatabase]
    ELSE DatabaseFromJSON(document)

\* Storage.load(): a new Database when there is no file; every other error
\* of access, readFile, JSON.parse and Database.fromJSON is a load error
StorageLoad(document) ==
    IF ~document.exists THEN [ok |-> TRUE, err |-> "", database |-> NewDatabase]
    ELSE IF document.content # "json"
    THEN [ok |-> FALSE, err |-> "LoadError", database |-> NoDatabase]
    ELSE DatabaseFromJSON(document)

\* Storage.save(database): the document written
StorageSave(db) == DatabaseToJSON(db)

(***************************************************************************)
(* The table-level specification: one table with the schema of the table   *)
(* tests, and Table.insert / find / update / delete called on it.          *)
(***************************************************************************)
MaxRows == 2

Call(op, ok, err, ret) == [op |-> op, ok |-> ok, err |-> err, ret |-> ret]

NoDoc == [exists |-> FALSE, content |-> "", name |-> "", tables |-> NoTables]

\* no save() is under way.  Of a save() the model keeps: pc, how far it got;
\* at, the database when it was called; obj, the Database object it was
\* handed; live, whether DB.database still is that object; since, the values
\* obj has had from the call to the serialization; data, the serialization
NotSaving ==
    [pc |-> "idle", at |-> NoDatabase, obj |-> NoDatabase, live |-> FALSE,
     since |-> {}, data |-> NoDoc]

UsersDefs ==
    <<ColumnDefFlags("id", "INT", TRUE, FALSE),
      ColumnDefFlags("name", "TEXT", FALSE, FALSE),
      ColumnDefFlags("email", "TEXT", FALSE, TRUE)>>

\* a row object with the keys whose value is not Undefined
MakeRow(id, name, email) ==
    LET all == [c \in {"id", "name", "email"} |->
                  IF c = "id" THEN id ELSE IF c = "name" THEN name ELSE email]
    IN [c \in {k \in DOMAIN all : all[k] # Undefined} |-> all[c]]

IdInputs == {IntV(1), IntV(2), Null, TextV("2"), TextV("x"), Undefined}
EmailInputs == {TextV("x"), TextV(NullKey), Null, Undefined}

InsertInputs ==
    {MakeRow(id, TextV("a"), email) : id \in IdInputs, email \in EmailInputs}
    \cup {[id |-> IntV(1), nope |-> IntV(1)]}

UpdateInputs ==
    {<<[c |-> "name", v |-> TextV("b")]>>,
     <<[c |-> "email", v |-> TextV("x")]>>,
     <<[c |-> "email", v |-> Null]>>,
     <<[c |-> "id", v |-> IntV(2)]>>,
     <<[c |-> "id", v |-> Null]>>,
     <<[c |-> "name", v |-> TextV("b")], [c |-> "id", v |-> TextV("x")]>>,
     <<[c |-> "nope", v |-> IntV(1)]>>}

ConditionInputs ==
    {NoCondition,
     Condition("id", "=", IntV(1)),
     Condition("id", ">=", IntV(1)),
     Condition("name", "=", TextV("a")),
     Condition("email", "=", Null),
     Condition("email", "=", TextV(NullKey)),
     Condition("email", "!=", TextV("x")),
     Condition("nope", "!=", IntV(1)),
     Condition("name", "==", TextV("a"))}

TableInit ==
    /\ database = [loaded |-> TRUE, name |-> "default",
                   tables |-> createTable(NoTables, "users", UsersDefs).tables]
    /\ doc = NoDoc
    /\ last = Call("createTable", TRUE, "", 0)
    /\ saving = NotSaving

SetTable(tableName, table) == [database EXCEPT !.tables[tableName] = table]

Insert(tableName, rowData) ==
    /\ database.loaded /\ tableName \in DOMAIN database.tables
    /\ Len(database.tables[tableName].rows) < MaxRows
    /\ \E r \in {TableInsert(database.tables[tableName], rowData)} :
          /\ database' = SetTable(tableName, r.table)
          /\ last' = Call("insert", r.ok, r.err, r.ret)
    /\ UNCHANGED <<doc, saving>>

Find(tableName, condition) ==
    /\ database.loaded /\ tableName \in DOMAIN database.tables
    /\ \E r \in {TableFind(database.tables[tableName], condition)} :
          last' = Call("find", r.ok, r.err, r.rows)
    /\ UNCHANGED <<database, doc, saving>>

Update(tableName, updates, condition) ==
    /\ database.loaded /\ tableName \in DOMAIN database.tables
    /\ \E r \in {TableUpdate(database.tables[tableName], updates, condition)} :
          /\ database' = SetTable(tableName, r.table)
          /\ last' = Call("update", r.ok, r.err, r.ret)
    /\ UNCHANGED <<doc, saving>>

Delete(tableName, condition) ==
    /\ database.loaded /\ tableName \in DOMAIN database.tables
    /\ \E r \in {TableDelete(database.tables[tableName], condition)} :
          /\ database' = SetTable(tableName, r.table)
          /\ last' = Call("delete", r.ok, r.err, r.ret)
    /\ UNCHANGED <<doc, saving>>

TableNext ==
    \/ \E row \in InsertInputs : Insert("users", row)
    \/ \E c \in ConditionInputs : Find("users", c)
    \/ \E u \in UpdateInputs, c \in ConditionInputs : Update("users", u, c)
    \/ \E c \in ConditionInputs : Delete("users", c)

Spec == TableInit /\ [][TableNext]_vars

(***************************************************************************)
(* The statement-level specification: a DB object over one document,       *)
(* with initialize(), execute(sql) and save().                             *)
(***************************************************************************)
JoinStatement ==
    "SELECT users.name, posts.title FROM users JOIN posts ON users.id = posts.user_id"

SetupStatements ==
    {"CREATE TABLE users (id INT PRIMARY KEY, name TEXT)",
     "CREATE TABLE posts (id INT PRIMARY KEY, user_id INT, title TEXT)",
     "INSERT INTO users (id, name) VALUES (1, 'Alice')",
     "INSERT INTO posts (id, user_id, title) VALUES (1, 1, 'Hello World')"}

NoWhereStatements ==
    {"UPDATE users SET name = 'Al'",
     "DELETE FROM users"}

NullKeyStatements ==
    {"INSERT INTO users (id, name) VALUES (NULL, 'Bob')",
     "UPDATE users SET id = NULL WHERE id = 1"}

Statements ==
    SetupStatements \cup NoWhereStatements \cup NullKeyStatements \cup
    {JoinStatement,
     "SELECT name, title FROM users JOIN posts ON id = user_id",
     "SELECT * FROM users WHERE id = 1",
     "UPDATE users SET name = 'Al' WHERE id = 1",
     "DELETE FROM users WHERE id = 1",
     "delete from posts where user_id >= 1",
     "DELETE FROM users WHERE id = 2 AND name = 'Alice'"}

\* CREATE TABLE statements: sound definitions, then definitions with two
\* primary keys, a repeated column name, no column, and a type that is no type
SoundDdl ==
    {"CREATE TABLE t (id INT PRIMARY KEY, name TEXT)",
     "CREATE TABLE t (id INT, email TEXT UNIQUE)",
     "CREATE TABLE u (id INT PRIMARY KEY UNIQUE)",
     "create table u (name text)"}

RejectedDdl ==
    {"CREATE TABLE t (id INT PRIMARY KEY, k INT PRIMARY KEY)",
     "CREATE TABLE u (id INT, id TEXT)",
     "CREATE TABLE u ()",
     "CREATE TABLE t (id INT PRIMARY KEY, k INT PRIMARY)"}

DdlStatements == SoundDdl \cup RejectedDdl \cup {"CREATE TABLE t (id FLOAT)"}

\* every statement of the model, parsed once
Parsed == [sql \in Statements \cup DdlStatements |-> Parse(sql)]

SqlInit ==
    /\ database = NoDatabase
    /\ doc = NoDoc
    /\ last = Call("new", TRUE, "", 0)
    /\ saving = NotSaving

\* DB.initialize(): this.database = await this.storage.load()
Initialize ==
    \E r \in {StorageLoad(doc)} :
       /\ database' = IF r.ok THEN r.database ELSE database
       /\ last' = Call("initialize", r.ok, r.err, 0)
       /\ UNCHANGED <<doc, saving>>

\* DB.execute(sql) saving the database after every statement that succeeded
ExecuteAutosave(sql) ==
    IF ~database.loaded
    THEN /\ last' = Call(sql, FALSE, "NotInitialized", 0)
         /\ UNCHANGED <<database, doc, saving>>
    ELSE IF ~Parsed[sql].ok
    THEN /\ last' = Call(sql, FALSE, Parsed[sql].err, 0)
         /\ UNCHANGED <<database, doc, saving>>
    ELSE \E r \in {Dispatch(Parsed[sql].ast, database.tables)} :
            /\ last' = Call(sql, r.ok, r.err, r.ret)
            /\ database' = [database EXCEPT !.tables = r.tables]
            /\ doc' = IF r.ok THEN StorageSave(database') ELSE doc
            /\ UNCHANGED saving

\* DB.execute(sql) without the test that the database was loaded
ExecuteUninitialized(sql) ==
    /\ IF ~Parsed[sql].ok
       THEN /\ last' = Call(sql, FALSE, Parsed[sql].err, 0)
            /\ UNCHANGED database
       ELSE \E r \in {Dispatch(Parsed[sql].ast, database.tables)} :
               /\ last' = Call(sql, r.ok, r.err, r.ret)
               /\ database' = [database EXCEPT !.tables = r.tables]
    /\ UNCHANGED <<doc, saving>>

\* the body of DB.execute(sql): synchronous, from the test of this.database
\* to the return or the throw
DbExecute(sql) ==
    IF ~database.loaded
    THEN /\ last' = Call(sql, FALSE, "NotInitialized", 0)
         /\ UNCHANGED database
    ELSE IF ~Parsed[sql].ok
    THEN /\ last' = Call(sql, FALSE, Parsed[sql].err, 0)
         /\ UNCHANGED database
    ELSE \E r \in {Dispatch(Parsed[sql].ast, database.tables)} :
            /\ last' = Call(sql, r.ok, r.err, r.ret)
            /\ database' = [database EXCEPT !.tables = r.tables]

\* DB.execute(sql)
Execute(sql) ==
    /\ DbExecute(sql)
    /\ UNCHANGED <<doc, saving>>

\* DB.save()
Save ==
    /\ IF ~database.loaded
       THEN /\ last' = Call("save", FALSE, "NotInitialized", 0)
            /\ UNCHANGED doc
       ELSE /\ last' = Call("save", TRUE, "", 0)
            /\ doc' = StorageSave(database)
    /\ UNCHANGED <<database, saving>>

SqlNext ==
    \/ Initialize
    \/ \E sql \in Statements : Execute(sql)
    \/ Save

SpecSql == SqlInit /\ [][SqlNext]_vars

(***************************************************************************)
(* The load-level specification: the same calls, started on a document     *)
(* that something else left at the location.                               *)
(***************************************************************************)
\* the document of a users table holding rows
UsersDocument(rows) ==
    [exists |-> TRUE, content |-> "json", name |-> "default",
     tables |-> [n \in {"users"} |->
                    [TableToJSON(NewTable("users",
                                          <<NewColumn("id", "INT", TRUE, TRUE).column,
                                            NewColumn("name", "TEXT", FALSE, FALSE).column>>).table)
                     EXCEPT !.rows = rows]]]

\* no document; a file that cannot be read; a file that is no JSON; a
\* document with one row; a document whose two rows share the primary key
Documents ==
    {NoDoc,
     [exists |-> TRUE, content |-> "unreadable", name |-> "", tables |-> NoTables],
     [exists |-> TRUE, content |-> "garbage", name |-> "", tables |-> NoTables],
     UsersDocument(<<[id |-> IntV(1), name |-> TextV("Alice")]>>),
     UsersDocument(<<[id |-> IntV(1), name |-> TextV("Alice")],
                     [id |-> IntV(1), name |-> TextV("Bob")]>>)}

LoadInit ==
    /\ database = NoDatabase
    /\ doc \in Documents
    /\ last = Call("new", TRUE, "", 0)
    /\ saving = NotSaving

SpecLoad == LoadInit /\ [][SqlNext]_vars

(***************************************************************************)
(* The asynchronous specification: save() is an async function, so calls   *)
(* of execute() and initialize() run between its awaits.  DB.save tests    *)
(* this.database and hands the object to Storage.save, which awaits        *)
(* ensureDataDirectory(), then serializes the object without an await in   *)
(* between (toJSON, JSON.stringify), then awaits writeFile.  One save() is *)
(* under way at a time.                                                    *)
(***************************************************************************)
\* the statements executed while a save() is pending
AsyncStatements ==
    {"CREATE TABLE users (id INT PRIMARY KEY, name TEXT)",
     "INSERT INTO users (id, name) VALUES (1, 'Alice')",
     "UPDATE users SET name = 'Al' WHERE id = 1",
     "DELETE FROM users WHERE id = 1"}

\* the number of changes of the database between the call of save() and its
\* serialization
MaxPending == 2

\* the save() under way, after a call of DB.execute or DB.initialize left
\* `db` in DB.database
Pending(db, replaced) ==
    IF saving.pc # "called" THEN saving
    ELSE IF replaced THEN [saving EXCEPT !.live = FALSE]
    ELSE IF ~saving.live THEN saving
    ELSE [saving EXCEPT !.obj = db, !.since = @ \cup {db}]

\* DB.initialize() while a save() may be under way: DB.database becomes a
\* new object, the save() keeps the one it was handed
AsyncInitialize ==
    \E r \in {StorageLoad(doc)} :
       /\ database' = IF r.ok THEN r.database ELSE database
       /\ last' = Call("initialize", r.ok, r.err, 0)
       /\ saving' = Pending(database', r.ok)
       /\ UNCHANGED doc

\* DB.execute(sql) while a save() may be under way
AsyncExecute(sql) ==
    /\ saving.pc = "called" => Cardinality(saving.since) <= MaxPending
    /\ DbExecute(sql)
    /\ saving' = Pending(database', FALSE)
    /\ UNCHANGED doc

\* DB.save() up to its first await: the test of this.database, the call of
\* Storage.save(this.database), the call of ensureDataDirectory()
SaveCall ==
    /\ saving.pc = "idle"
    /\ IF ~database.loaded
       THEN /\ last' = Call("save", FALSE, "NotInitialized", 0)
            /\ UNCHANGED saving
       ELSE /\ last' = Call("save:called", TRUE, "", 0)
            /\ saving' = [pc |-> "called", at |-> database, obj |-> database,
                          live |-> TRUE, since |-> {database}, data |-> NoDoc]
    /\ UNCHANGED <<database, doc>>

\* Storage.save serializing the database that the document on the disk
\* holds, not the object it was handed
SaveSerializeStored ==
    /\ saving.pc = "called"
    /\ saving' = [saving EXCEPT !.pc = "serialized",
                                !.data = DatabaseToJSON(StorageLoad(doc).database)]
    /\ last' = Call("save:serialized", TRUE, "", 0)
    /\ UNCHANGED <<database, doc>>

\* Storage.save from the return of ensureDataDirectory() to the call of
\* writeFile: database.toJSON() and JSON.stringify
SaveSerialize ==
    /\ saving.pc = "called"
    /\ saving' = [saving EXCEPT !.pc = "serialized",
                                !.data = DatabaseToJSON(saving.obj)]
    /\ last' = Call("save:serialized", TRUE, "", 0)
    /\ UNCHANGED <<database, doc>>

\* writeFile puts the text on the disk and save() returns
SaveWrite ==
    /\ saving.pc = "serialized"
    /\ doc' = saving.data
    /\ saving' = [saving EXCEPT !.pc = "idle"]
    /\ last' = Call("save:written", TRUE, "", 0)
    /\ UNCHANGED database

AsyncNext ==
    \/ AsyncInitialize
    \/ \E sql \in AsyncStatements : AsyncExecute(sql)
    \/ SaveCall
    \/ SaveSerialize
    \/ SaveWrite

SpecAsync == SqlInit /\ [][AsyncNext]_vars

(***************************************************************************)
(* The schema-level specification: CREATE TABLE statements, and the        *)
(* createTable / dropTable calls of the registry, over two table names.    *)
(***************************************************************************)
\* two ordinary names and one that every JavaScript object inherits
TableNames == {"t", "u", "constructor"}

\* column definitions as a caller of createTable writes them
ApiDefs ==
    {<<>>,
     <<ColumnDefFlags("id", "INT", TRUE, FALSE)>>,
     <<ColumnDefFlags("id", "int", TRUE, FALSE), ColumnDefFlags("k", "INT", TRUE, TRUE)>>,
     <<ColumnDefFlags("a", "TEXT", FALSE, FALSE), ColumnDefFlags("a", "TEXT", FALSE, TRUE)>>,
     <<ColumnDefFlags("a", "TEXT", FALSE, TRUE), ColumnDefFlags("b", "BOOLEAN", FALSE, FALSE)>>}

\* Database.createTable(tableName, columnDefs)
CreateTable(tableName, columnDefs) ==
    /\ database.loaded
    /\ \E r \in {createTable(database.tables, tableName, columnDefs)} :
          /\ database' = [database EXCEPT !.tables = r.tables]
          /\ last' = Call("createTable", r.ok, r.err, 0)
    /\ UNCHANGED <<doc, saving>>

\* Database.dropTable(tableName)
DropTable(tableName) ==
    /\ database.loaded
    /\ \E r \in {dropTable(database.tables, tableName)} :
          /\ database' = [database EXCEPT !.tables = r.tables]
          /\ last' = Call("dropTable", r.ok, r.err, 0)
    /\ UNCHANGED <<doc, saving>>

DdlNext ==
    \/ Initialize
    \/ \E sql \in DdlStatements : Execute(sql)
    \/ \E n \in TableNames, defs \in ApiDefs : CreateTable(n, defs)
    \/ \E n \in TableNames : DropTable(n)

SpecDdl == SqlInit /\ [][DdlNext]_vars

(***************************************************************************)
(* The index-level specification: one unique Index object, which the       *)
(* variable database holds here, under add, remove, update and a           *)
(* serialization that is read back into a second object.                   *)
(***************************************************************************)
\* values of the four kinds, with the text that add() stores for null
IndexValues == {IntV(1), IntV(2), TextV("a"), TextV(NullKey), BoolV(TRUE), Null}

Positions == {0, 1}

IndexInit ==
    /\ database \in {NewIndex("k", FALSE, TRUE), NewIndex("id", TRUE, FALSE)}
    /\ doc = NoDoc
    /\ last = Call(<<"new">>, TRUE, "", 0)
    /\ saving = NotSaving

\* the message of the error add() throws
DuplicateError(index) ==
    IF index.isPrimaryKey THEN "DuplicatePrimaryKey" ELSE "DuplicateUnique"

\* index.add(value, rowIndex)
AddEntry(value, rowIndex) ==
    \E r \in {IndexAdd(database, value, rowIndex)} :
       /\ database' = r.index
       /\ last' = Call(<<"add", value, rowIndex>>, r.ok,
                       IF r.ok THEN "" ELSE DuplicateError(database), 0)
       /\ UNCHANGED <<doc, saving>>

\* index.remove(value, rowIndex)
RemoveEntry(value, rowIndex) ==
    /\ database' = IndexRemove(database, value, rowIndex)
    /\ last' = Call(<<"remove", value, rowIndex>>, TRUE, "", 0)
    /\ UNCHANGED <<doc, saving>>

\* index.update(oldValue, newValue, rowIndex)
UpdateEntry(oldValue, newValue, rowIndex) ==
    \E r \in {IndexUpdate(database, oldValue, newValue, rowIndex)} :
       /\ database' = r.index
       /\ last' = Call(<<"update", oldValue, newValue, rowIndex>>, r.ok,
                       IF r.ok THEN "" ELSE DuplicateError(database), 0)
       /\ UNCHANGED <<doc, saving>>

\* restored = Index.fromJSON(index.toJSON())
Restore ==
    /\ last' = Call(<<"fromJSON">>, TRUE, "", IndexFromJSON(IndexToJSON(database)))
    /\ UNCHANGED <<database, doc, saving>>

IndexNext ==
    \/ \E value \in IndexValues, rowIndex \in Positions : AddEntry(value, rowIndex)
    \/ \E value \in IndexValues, rowIndex \in Positions : RemoveEntry(value, rowIndex)
    \/ \E oldValue \in IndexValues, newValue \in IndexValues, rowIndex \in Positions :
          UpdateEntry(oldValue, newValue, rowIndex)
    \/ Restore

SpecIndex == IndexInit /\ [][IndexNext]_vars

(***************************************************************************)
(* The join-level specification: two tables filled by Table.insert, and    *)
(* SELECT ... JOIN statements executed over them.  Both tables have a      *)
(* column v; u is a column of the left table only, w of the right table    *)
(* only; only the right table's k carries an index.                        *)
(***************************************************************************)
LeftDefs ==
    <<ColumnDefFlags("k", "TEXT", FALSE, FALSE),
      ColumnDefFlags("v", "TEXT", FALSE, FALSE),
      ColumnDefFlags("u", "INT", FALSE, FALSE)>>

RightDefs ==
    <<ColumnDefFlags("k", "TEXT", FALSE, TRUE),
      ColumnDefFlags("v", "TEXT", FALSE, FALSE),
      ColumnDefFlags("w", "INT", FALSE, FALSE)>>

\* rows of the left table: empty text, 0 and NULL among the values, and a
\* row inserted without the join column
LeftRows ==
    {[k |-> TextV("x"), v |-> TextV("p"), u |-> IntV(1)],
     [k |-> TextV("x"), v |-> TextV(""), u |-> IntV(0)],
     [k |-> Null, v |-> Null, u |-> IntV(1)],
     [k |-> TextV(NullKey), v |-> TextV("p"), u |-> IntV(0)],
     [v |-> TextV("p"), u |-> IntV(1)]}

RightRows ==
    {[k |-> TextV("x"), v |-> TextV("q"), w |-> IntV(0)],
     [k |-> Null, v |-> TextV("q"), w |-> IntV(1)],
     [v |-> TextV("q"), w |-> IntV(0)]}

JoinOn(type, table, left, right) ==
    [present |-> TRUE, type |-> type, table |-> table, left |-> left, right |-> right]

SelectJoin(tableName, columns, where, join) ==
    Ast("SELECT", tableName, columns, <<>>, <<>>, where, join)

\* the conditions of the WHERE clause of a join
JoinConditions ==
    {NoCondition,
     Condition("a.v", "=", TextV("p")),
     Condition("v", "=", TextV("p")),
     Condition("b.w", ">=", IntV(1)),
     Condition("w", "!=", IntV(1))}

\* the SELECT ... JOIN statements executed
JoinAsts ==
    {SelectJoin("a", cols, cond, JoinOn("INNER", "b", "k", "k")) :
        cols \in {<<"*">>, <<"v", "w">>, <<"u">>, <<"a.v", "b.v">>}, cond \in JoinConditions}
    \cup {SelectJoin("b", <<"*">>, NoCondition, JoinOn("INNER", "a", "k", "k")),
          SelectJoin("a", <<"*">>, NoCondition, JoinOn("INNER", "a", "v", "v"))}

JoinInit ==
    /\ database = [loaded |-> TRUE, name |-> "default",
                   tables |-> createTable(createTable(NoTables, "a", LeftDefs).tables,
                                          "b", RightDefs).tables]
    /\ doc = NoDoc
    /\ last = Call("createTable", TRUE, "", 0)
    /\ saving = NotSaving

\* executeSelect(ast, database)
Select(ast) ==
    /\ database.loaded
    /\ \E r \in {executeSelect(ast, database.tables)} :
          last' = Call("select", r.ok, r.err, r.ret)
    /\ UNCHANGED <<database, doc, saving>>

JoinNext ==
    \/ \E row \in LeftRows : Insert("a", row)
    \/ \E row \in RightRows : Insert("b", row)
    \/ \E ast \in JoinAsts : Select(ast)

SpecJoin == JoinInit /\ [][JoinNext]_vars

(***************************************************************************)
(* The lexer-level specification: tokenize() called on every short string  *)
(* over a letter, a quote, a backslash, a blank and a character the lexer  *)
(* does not know.                                                          *)
(***************************************************************************)
MaxLen == 3

LexAlphabet == {"a", "'", "\\", " ", "#"}

RECURSIVE StringsUpTo(_)
StringsUpTo(n) ==
    IF n = 0 THEN {""}
    ELSE StringsUpTo(n - 1) \cup {s \o c : s \in StringsUpTo(n - 1), c \in LexAlphabet}

LexInputs == StringsUpTo(MaxLen)

\* new Tokenizer(input).tokenize()
Tokenize(input) ==
    /\ \E r \in {tokenize(input)} :
          last' = Call(input, r.ok, r.err, r.tokens)
    /\ UNCHANGED <<database, doc, saving>>

LexNext == \E input \in LexInputs : Tokenize(input)

SpecLex == SqlInit /\ [][LexNext]_vars

(***************************************************************************)
(* Properties of the tables                                                *)
(***************************************************************************)
\* the values a caller can probe an index or a table with
ProbeValues ==
    {IntV(1), IntV(2), TextV("a"), TextV("x"), TextV("2"), TextV(NullKey),
     BoolV(TRUE), Null}

\* the positions (from 0) of the rows of table that hold value in column
Holding(table, columnName, value) ==
    {p \in 0..(Len(table.rows) - 1) : RowGet(table.rows[p + 1], columnName) = value}

\* C1: in every table, for every primary-key or unique column and every
\* value, the index's find returns exactly the positions of the rows that
\* hold the value in the column
IndexRowConsistency ==
    \A n \in DOMAIN database.tables :
        \A c \in DOMAIN database.tables[n].indexes :
            \A v \in ProbeValues :
                Range(IndexFind(database.tables[n].indexes[c], v))
                    = Holding(database.tables[n], c, v)

\* C2: in every table, no two distinct rows hold the same present value in
\* the primary-key column or in a unique column
Uniqueness ==
    \A n \in DOMAIN database.tables :
        \A i \in 1..Len(database.tables[n].columns) :
            LET table == database.tables[n]
                column == table.columns[i]
            IN column.primaryKey \/ column.unique =>
                 \A p, q \in 1..Len(table.rows) :
                    /\ p # q
                    /\ column.name \in DOMAIN table.rows[p]
                    /\ column.name \in DOMAIN table.rows[q]
                    => table.rows[p][column.name] # table.rows[q][column.name]

\* two rows stand in the table, and the last call was turned down as a
\* duplicate
UniquenessWitness ==
    /\ "users" \in DOMAIN database.tables
    /\ Len(database.tables["users"].rows) = 2
    /\ last.op \in {"insert", "update"}
    /\ last.err \in {"DuplicatePrimaryKey", "DuplicateUnique"}

\* whether a row, once validated, holds a value that an index of the table
\* already holds
IndexHit(table, rowData) ==
    /\ _validateRow(table, rowData).ok
    /\ \E c \in DOMAIN table.indexes :
          /\ c \in DOMAIN rowData
          /\ IndexHas(table.indexes[c], _validateRow(table, rowData).row[c])

\* C3: an insert that fails leaves the rows and the indexes of the table as
\* they were, and an insert of a valid row whose primary-key or unique value
\* is already in the column's index fails with a duplicate error
FailedInsertChangesNothing ==
    [][/\ last'.op = "insert" /\ ~last'.ok => database' = database
       /\ \A row \in InsertInputs :
             /\ last'.op = "insert"
             /\ Insert("users", row)
             /\ IndexHit(database.tables["users"], row)
             => /\ ~last'.ok
                /\ last'.err \in {"DuplicatePrimaryKey", "DuplicateUnique"}
                /\ database' = database]_vars

\* an insert into a table that holds a row was turned down as a duplicate
FailedInsertWitness ==
    /\ last.op = "insert" /\ ~last.ok
    /\ last.err = "DuplicateUnique"
    /\ Len(database.tables["users"].rows) > 0

\* C5: an update that fails has changed no row and no index
FailedUpdateChangesNothing ==
    [][last'.op = "update" /\ ~last'.ok => database' = database]_vars

\* C7: in every table, an equality find on an indexed column returns the rows
\* a linear scan of the table returns for the same condition
IndexScanEquivalence ==
    \A n \in DOMAIN database.tables :
        \A c \in DOMAIN database.tables[n].indexes :
            \A v \in ProbeValues :
                TableFind(database.tables[n], Condition(c, "=", v))
                    = ScanRows(database.tables[n], Condition(c, "=", v))

\* C9: every row of a table with a primary key holds a value other than
\* null in the primary-key column
PrimaryKeyNotNull ==
    \A n \in DOMAIN database.tables :
        \A i \in 1..Len(database.tables[n].columns) :
            database.tables[n].columns[i].primaryKey =>
                \A p \in 1..Len(database.tables[n].rows) :
                    RowGet(database.tables[n].rows[p],
                           database.tables[n].columns[i].name) \notin {Null, Undefined}

(***************************************************************************)
(* Properties of the statements                                            *)
(***************************************************************************)
\* C4: an UPDATE or a DELETE statement without a WHERE clause fails, with
\* the executor's error when its table exists, and leaves every table as it
\* was
NoWhereAlwaysFails ==
    [][last'.op \in NoWhereStatements =>
          /\ ~last'.ok
          /\ database' = database
          /\ database.loaded /\ "users" \in DOMAIN database.tables
             => last'.err \in {"UpdateWithoutWhere", "DeleteWithoutWhere"}]_vars

\* a DELETE without WHERE was turned down on a table that holds a row
NoWhereWitness ==
    /\ last.op = "DELETE FROM users"
    /\ last.err = "DeleteWithoutWhere"
    /\ Len(database.tables["users"].rows) > 0

\* C6: after save(), load() of the document gives a database equal to the
\* one saved: table names, columns, rows and index contents
RoundTrip ==
    last.op = "save" /\ last.ok =>
        StorageLoad(doc) = [ok |-> TRUE, err |-> "", database |-> database]

\* a database with both tables and a row in each was saved
RoundTripWitness ==
    /\ last.op = "save" /\ last.ok
    /\ DOMAIN database.tables = {"users", "posts"}
    /\ Len(database.tables["users"].rows) > 0
    /\ Len(database.tables["posts"].rows) > 0

\* users and posts hold one row each, with users.id equal to posts.user_id
JoinScenario ==
    /\ database.loaded
    /\ DOMAIN database.tables = {"users", "posts"}
    /\ Len(database.tables["users"].rows) = 1
    /\ Len(database.tables["posts"].rows) = 1
    /\ RowGet(database.tables["users"].rows[1], "id")
         = RowGet(database.tables["posts"].rows[1], "user_id")

\* C8: in the join scenario, the SELECT with qualified names succeeds and
\* returns exactly one merged row, with users.name and posts.title
QualifiedJoinReturnsOneRow ==
    last.op = JoinStatement /\ JoinScenario =>
        /\ last.ok
        /\ Len(last.ret) = 1
        /\ DOMAIN last.ret[1] = {"users.name", "posts.title"}

(***************************************************************************)
(* Properties of the schemas                                               *)
(***************************************************************************)
\* whether a list of column definitions has no column, a repeated name or
\* more than one primary key
BadDefs(columnDefs) ==
    \/ Len(columnDefs) = 0
    \/ \E i, j \in 1..Len(columnDefs) : i # j /\ columnDefs[i].name = columnDefs[j].name
    \/ \E i, j \in 1..Len(columnDefs) :
          /\ i # j
          /\ DefToColumn(columnDefs[i]).column.primaryKey
          /\ DefToColumn(columnDefs[j]).column.primaryKey

SchemaWellFormed ==
    \A n \in DOMAIN database.tables :
        LET cols == database.tables[n].columns
        IN /\ Cardinality({i \in 1..Len(cols) : cols[i].primaryKey}) <= 1
           /\ \A i \in 1..Len(cols) : cols[i].primaryKey => cols[i].unique

\* C10: every registered table has at most one primary-key column, which is
\* unique too; a CREATE TABLE statement or createTable call with no column,
\* a repeated column name or more than one primary key fails and leaves the
\* registry as it was
CreateTableSchema ==
    /\ []SchemaWellFormed
    /\ [][/\ last'.op \in RejectedDdl => ~last'.ok /\ database' = database
          /\ \A n \in TableNames, defs \in ApiDefs :
                /\ last'.op = "createTable"
                /\ CreateTable(n, defs)
                /\ BadDefs(defs)
                => ~last'.ok /\ database' = database]_vars

\* a table with a primary key is registered, and the last definition was
\* turned down for its two primary keys
CreateTableWitness ==
    /\ last.err = "MultiplePrimaryKeys"
    /\ \E n \in DOMAIN database.tables :
          \E i \in 1..Len(database.tables[n].columns) :
              database.tables[n].columns[i].primaryKey

\* C11: in every state and for every name, hasTable(n) holds exactly when
\* getTable(n) succeeds; a name listTables does not list is missing, so
\* getTable and dropTable on it fail; createTable on a listed name fails
\* and leaves the registry as it is.
RegistryOperations ==
    database.loaded =>
        \A n \in TableNames :
            /\ hasTable(database.tables, n) <=> getTable(database.tables, n).ok
            /\ n \notin listTables(database.tables) =>
                   /\ ~getTable(database.tables, n).ok
                   /\ ~dropTable(database.tables, n).ok
            /\ n \in listTables(database.tables) =>
                   \A defs \in ApiDefs :
                       /\ ~createTable(database.tables, n, defs).ok
                       /\ createTable(database.tables, n, defs).tables = database.tables

\* C12: every execute() or save() taken while the database has not been
\* loaded by initialize() fails with the not-initialized error and changes
\* neither the database nor the document.
InitializeFirst ==
    [][(~database.loaded /\ last'.op \in Statements \cup {"save"})
          => /\ ~last'.ok
             /\ last'.err = "NotInitialized"
             /\ database' = database
             /\ doc' = doc]_vars

\* a save() and an execute() were refused before initialize()
InitializeFirstWitness ==
    /\ ~database.loaded
    /\ last.op \in Statements \cup {"save"}
    /\ last.err = "NotInitialized"

\* C13: a step of execute() leaves the document as it is; the document
\* changes only in a step of save(), and after a save() that succeeded it
\* is the serialization of the database held in memory.
NoAutosave ==
    [][/\ last'.op \in Statements => doc' = doc
       /\ doc' # doc => last'.op = "save"
       /\ (last'.op = "save" /\ last'.ok)
             => /\ doc' = DatabaseToJSON(database')
                /\ database' = database]_vars

\* a statement changed the database after a save(): the document saved
\* earlier is still the old one
NoAutosaveWitness ==
    /\ doc.exists
    /\ last.op \in Statements
    /\ last.ok
    /\ doc # DatabaseToJSON(database)

\* the column lists a SELECT of the users table asks for
SelectColumnLists ==
    {<<"*">>, <<"id">>, <<"name", "id">>, <<"email">>, <<"nope">>, <<"id", "nope">>}

\* what a SELECT of cols must give, find having returned found
SelectAgrees(table, cols, found, out) ==
    IF "*" \in Range(cols)
    THEN out.ok /\ out.ret = found.rows
    ELSE /\ out.ok <=> \A i \in 1..Len(cols) : HasColumn(table, cols[i])
         /\ out.ok =>
               /\ Len(out.ret) = Len(found.rows)
               /\ \A k \in 1..Len(out.ret) :
                     /\ DOMAIN out.ret[k] = Range(cols)
                     /\ \A c \in Range(cols) : out.ret[k][c] = RowGet(found.rows[k], c)

\* C14: in every state of the table, a SELECT without a join whose WHERE
\* find accepts returns the rows of find unchanged for *, and for a list of
\* names returns exactly the requested columns of each row, failing exactly
\* when a requested name is not a column of the table.
SelectProjection ==
    \A cols \in SelectColumnLists, cond \in ConditionInputs :
        TableFind(database.tables["users"], cond).ok =>
            SelectAgrees(database.tables["users"], cols,
                         TableFind(database.tables["users"], cond),
                         executeSelect(Ast("SELECT", "users", cols, <<>>, <<>>, cond, NoJoin),
                                       database.tables))

\* conditions find is probed with: those of the table's callers, and the
\* operators == and ! of the lexer on the indexed columns
FindProbes ==
    ConditionInputs \cup
    {Condition("id", "==", IntV(1)), Condition("email", "!", Null),
     Condition("nope", "=", IntV(1))}

\* C15: in every state of the table, empty or not, find with a condition
\* on a column the table does not have, or with an operator outside
\* =, !=, >, <, >=, <=, fails.
FindRejects ==
    \A cond \in FindProbes :
        (cond.present /\ (~HasColumn(database.tables["users"], cond.column)
                          \/ cond.operator \notin Operators))
            => ~TableFind(database.tables["users"], cond).ok

\* C16: in every index of the table, Null has a bucket of its own: has(Null)
\* holds exactly when some row stores Null in the column, has(V) for a
\* value V that is not Null holds only when some row stores V, and adding
\* Null while no row stores Null meets no conflict.
NullSentinel ==
    \A c \in DOMAIN database.tables["users"].indexes :
        /\ IndexHas(database.tables["users"].indexes[c], Null)
              <=> Holding(database.tables["users"], c, Null) # {}
        /\ \A v \in ProbeValues \ {Null} :
              IndexHas(database.tables["users"].indexes[c], v)
                 => Holding(database.tables["users"], c, v) # {}
        /\ Holding(database.tables["users"], c, Null) = {}
              => IndexAdd(database.tables["users"].indexes[c], Null,
                          Len(database.tables["users"].rows)).ok

\* an updates object naming a column the table does not have, or holding a
\* value its column cannot coerce or does not accept
BadUpdates(table, updates) ==
    \E k \in 1..Len(updates) :
        \/ ~HasColumn(table, updates[k].c)
        \/ /\ HasColumn(table, updates[k].c)
           /\ \/ ~coerceType(getColumn(table, updates[k].c), updates[k].v).ok
              \/ ~validateType(getColumn(table, updates[k].c),
                               coerceType(getColumn(table, updates[k].c), updates[k].v).v)

\* C17: in every state of the table and under every condition, an update
\* naming an unknown column or carrying a value that its column rejects
\* fails with the column or type error and leaves the table, rows and
\* indexes, as it was.
InvalidUpdateTouchesNothing ==
    \A u \in UpdateInputs, cond \in ConditionInputs :
        BadUpdates(database.tables["users"], u) =>
            /\ ~TableUpdate(database.tables["users"], u, cond).ok
            /\ TableUpdate(database.tables["users"], u, cond).err
                  \in {"ColumnNotFound", "TypeError", "TypeMismatch"}
            /\ TableUpdate(database.tables["users"], u, cond).table = database.tables["users"]

\* an update of every row with a value the id column cannot coerce was
\* refused on a table holding rows
InvalidUpdateWitness ==
    /\ last.op = "update"
    /\ last.err = "TypeError"
    /\ Len(database.tables["users"].rows) = MaxRows

\* the positions (from 1) of the rows of table that satisfy condition
Satisfying(table, condition) ==
    {i \in 1..Len(table.rows) :
        ~condition.present
        \/ Compare(RowGet(table.rows[i], condition.column), condition.operator,
                   condition.value)}

\* the value an update entry stores: the entry's value as its column coerces it
StoredValue(table, updates, c) ==
    coerceType(getColumn(table, c),
               updates[CHOOSE k \in 1..Len(updates) : updates[k].c = c].v).v

\* what update(updates, condition), having returned r, must have done to table
UpdateAgrees(table, updates, condition, r) ==
    r.ok =>
        /\ r.ret = Cardinality(Satisfying(table, condition))
        /\ r.table.columns = table.columns
        /\ Len(r.table.rows) = Len(table.rows)
        /\ \A i \in 1..Len(table.rows) :
              IF i \notin Satisfying(table, condition)
              THEN r.table.rows[i] = table.rows[i]
              ELSE /\ DOMAIN r.table.rows[i]
                         = DOMAIN table.rows[i] \cup {updates[k].c : k \in 1..Len(updates)}
                   /\ \A c \in DOMAIN r.table.rows[i] :
                         r.table.rows[i][c]
                            = IF \E k \in 1..Len(updates) : updates[k].c = c
                              THEN StoredValue(table, updates, c)
                              ELSE table.rows[i][c]
                   /\ r.table.rows[i]
                         \in Range(TableFind(r.table,
                                             Condition("id", "=", r.table.rows[i]["id"])).rows)

\* C18: in every state of the table, an update that succeeds returns the
\* number of rows satisfying its condition, stores the updated columns in
\* exactly those rows, leaves every other row, every other column and the
\* order of the rows as they were, and a following equality find on the
\* key of an updated row returns the row with its new values.
UpdateEffect ==
    \A u \in UpdateInputs, cond \in ConditionInputs :
        UpdateAgrees(database.tables["users"], u, cond,
                     TableUpdate(database.tables["users"], u, cond))

\* an update changed one of the two rows of the table
UpdateEffectWitness ==
    /\ last.op = "update"
    /\ last.ok
    /\ last.ret = 1
    /\ Len(database.tables["users"].rows) = 2

\* the rows of table that do not satisfy condition, in their order
Remaining(table, condition) ==
    SelectSeq(table.rows,
              LAMBDA row : condition.present
                           /\ ~Compare(RowGet(row, condition.column), condition.operator,
                                       condition.value))

\* what delete(condition), having returned r, must have done to table
DeleteAgrees(table, condition, r) ==
    /\ r.ok
    /\ r.ret = Cardinality(Satisfying(table, condition))
    /\ r.table.rows = Remaining(table, condition)
    /\ r.table.columns = table.columns
    /\ executeSelect(Ast("SELECT", "users", <<"*">>, <<>>, <<>>, NoCondition, NoJoin),
                     [database.tables EXCEPT !["users"] = r.table]).ret
          = Remaining(table, condition)

\* C19: in every state of the table, a delete without a condition or with
\* a condition on a column of the table removes exactly the rows
\* satisfying the condition, keeps the other rows in their order, returns
\* the number of rows removed, and a following SELECT * returns exactly the
\* rows that remain.
DeleteEffect ==
    \A cond \in FindProbes :
        (~cond.present \/ HasColumn(database.tables["users"], cond.column)) =>
            DeleteAgrees(database.tables["users"], cond,
                         TableDelete(database.tables["users"], cond))

\* a delete removed one of two rows
DeleteEffectWitness ==
    /\ last.op = "delete"
    /\ last.ok
    /\ last.ret = 1
    /\ Len(database.tables["users"].rows) = 1

\* C20: in every state of the table and for every operator, a delete, by
\* Table.delete or by a DELETE statement, whose condition names a column
\* the table does not have fails with the unknown-column error and removes
\* no row.
DeleteRejectsUnknownColumn ==
    \A cond \in FindProbes :
        (cond.present /\ ~HasColumn(database.tables["users"], cond.column)) =>
            /\ ~TableDelete(database.tables["users"], cond).ok
            /\ TableDelete(database.tables["users"], cond).table = database.tables["users"]
            /\ ~executeDelete(Ast("DELETE", "users", <<>>, <<>>, <<>>, cond, NoJoin),
                              database.tables).ok
            /\ executeDelete(Ast("DELETE", "users", <<>>, <<>>, <<>>, cond, NoJoin),
                             database.tables).tables = database.tables

(***************************************************************************)
(* Properties of joins                                                     *)
(***************************************************************************)
\* the merged rows of the join of a with b on k = k, each with the left
\* and the right row it was made of
MergedRows ==
    LET pairs == JoinPairs(database.tables["a"], database.tables["b"], "k", "k")
    IN {[left |-> database.tables["a"].rows[pairs[i][1]],
         right |-> database.tables["b"].rows[pairs[i][2]],
         joined |-> _createJoinedRow(database.tables["a"].rows[pairs[i][1]],
                                     database.tables["b"].rows[pairs[i][2]], "a", "b")] :
           i \in 1..Len(pairs)}

\* C21: for every merged row of the join, projecting the unqualified name
\* v, a column of both tables, gives the left row's v; projecting u, a
\* column of the left table only, gives the left row's u; projecting w, a
\* column of the right table only, gives the right row's w - whatever the
\* values are.
UnqualifiedResolvesLeftFirst ==
    \A m \in MergedRows :
        /\ _projectColumns(m.joined, <<"v">>, "a", "b").ok
        /\ _projectColumns(m.joined, <<"v">>, "a", "b").row["v"] = m.left["v"]
        /\ _projectColumns(m.joined, <<"u">>, "a", "b").ok
        /\ _projectColumns(m.joined, <<"u">>, "a", "b").row["u"] = m.left["u"]
        /\ _projectColumns(m.joined, <<"w">>, "a", "b").ok
        /\ _projectColumns(m.joined, <<"w">>, "a", "b").row["w"] = m.right["w"]

\* the value of a merged row that a WHERE column names: the field of the
\* qualified name, or for an unqualified name the field of that column
WhereValue(joined, column) ==
    IF column \in DOMAIN joined THEN joined[column]
    ELSE IF ("a." \o column) \in DOMAIN joined THEN joined["a." \o column]
    ELSE RowGet(joined, "b." \o column)

\* WHERE conditions on qualified names and on unqualified names that only
\* one of the two tables has
JoinWhereProbes ==
    {Condition("a.v", "=", TextV("p")), Condition("b.w", ">=", IntV(1)),
     Condition("w", "!=", IntV(1)), Condition("u", "=", IntV(1))}

\* C22: in every state, the join of a with b under a WHERE clause returns,
\* in order, exactly the merged rows of the join without the clause whose
\* value for the WHERE column - looked up under the qualified name, or for
\* an unqualified name under the column of that name - satisfies the
\* predicate.
JoinWhereFilters ==
    \A cond \in JoinWhereProbes :
        executeJoin(SelectJoin("a", <<"*">>, cond, JoinOn("INNER", "b", "k", "k")),
                    database.tables).ret
           = SelectSeq(executeJoin(SelectJoin("a", <<"*">>, NoCondition,
                                              JoinOn("INNER", "b", "k", "k")),
                                   database.tables).ret,
                       LAMBDA j : Compare(WhereValue(j, cond.column), cond.operator, cond.value))

\* what the merged row of leftRow and rightRow must hold
MergedKeepsBoth(joined, leftRow, rightRow, leftTableName, rightTableName) ==
    /\ Cardinality(DOMAIN joined) = Cardinality(DOMAIN leftRow) + Cardinality(DOMAIN rightRow)
    /\ \A c \in DOMAIN leftRow : RowGet(joined, leftTableName \o "." \o c) = leftRow[c]
    /\ \A c \in DOMAIN rightRow : RowGet(joined, rightTableName \o "." \o c) = rightRow[c]

\* C23: in every state, for every table named in FROM and every table
\* named in JOIN, the merged row of a left row and a right row holds one
\* field table.column per field of the left row and one per field of the
\* right row, each with its row's value.
MergedRowNamespaced ==
    \A lt \in DOMAIN database.tables, rt \in DOMAIN database.tables :
        \A i \in 1..Len(database.tables[lt].rows), j \in 1..Len(database.tables[rt].rows) :
            MergedKeepsBoth(_createJoinedRow(database.tables[lt].rows[i],
                                             database.tables[rt].rows[j], lt, rt),
                            database.tables[lt].rows[i], database.tables[rt].rows[j], lt, rt)

\* the (left, right) pairs of row positions a comparison of every left row
\* with every right row pairs up, in the order of the two loops
NestedLoopPairs(leftTable, rightTable, leftColumn, rightColumn) ==
    LET nr == Len(rightTable.rows)
        F[i \in 0..Len(leftTable.rows)] ==
            IF i = 0 THEN <<>>
            ELSE F[i - 1] \o
                 SelectSeq([j \in 1..nr |-> <<i, j>>],
                           LAMBDA p : RowGet(leftTable.rows[i], leftColumn)
                                      = RowGet(rightTable.rows[p[2]], rightColumn))
    IN F[Len(leftTable.rows)]

\* C24: in every state, the join of a with b on k = k, computed by probing
\* the index of b.k, returns the merged rows of exactly the (left, right)
\* pairs whose join values are equal, NULL included, in the order in which
\* the nested loop over every left and every right row would return them.
JoinStrategyEquivalence ==
    /\ "k" \in DOMAIN database.tables["b"].indexes
    /\ executeJoin(SelectJoin("a", <<"*">>, NoCondition, JoinOn("INNER", "b", "k", "k")),
                   database.tables).ret
          = [n \in 1..Len(NestedLoopPairs(database.tables["a"], database.tables["b"], "k", "k")) |->
                _createJoinedRow(
                    database.tables["a"].rows[
                        NestedLoopPairs(database.tables["a"], database.tables["b"], "k", "k")[n][1]],
                    database.tables["b"].rows[
                        NestedLoopPairs(database.tables["a"], database.tables["b"], "k", "k")[n][2]],
                    "a", "b")]

(***************************************************************************)
(* Properties of loading                                                   *)
(***************************************************************************)
\* a document describing two rows of one table that hold the same value in
\* a primary-key or unique column
DuplicateRows(document) ==
    \E n \in DOMAIN document.tables :
        \E k \in 1..Len(document.tables[n].columns) :
            /\ document.tables[n].columns[k].primaryKey \/ document.tables[n].columns[k].unique
            /\ \E i, j \in 1..Len(document.tables[n].rows) :
                  /\ i < j
                  /\ document.tables[n].columns[k].name \in DOMAIN document.tables[n].rows[i]
                  /\ document.tables[n].columns[k].name \in DOMAIN document.tables[n].rows[j]
                  /\ document.tables[n].rows[i][document.tables[n].columns[k].name]
                        = document.tables[n].rows[j][document.tables[n].columns[k].name]

Chars(str) == {CharAt(str, i) : i \in 1..Len(str)}

\* the text a token stands for
TokenText(token) == IF token.type = "EOF" THEN "" ELSE ToUpperCase(JsString(token.value))

\* C26: after tokenize() of any input, either the call failed with the
\* lexical error and the input holds a character the lexer does not know,
\* or the tokens end with an Eof token that is their only Eof token, every
\* character of every token is a character of the input (or the newline or
\* tab an escape stands for), and every character of the input other than
\* blanks, quotes and backslashes is a character of some token.
TokenizeTotal ==
    last.op \in LexInputs =>
        IF ~last.ok
        THEN last.err = "UnexpectedCharacter" /\ Chars(last.op) \cap {"#", "\\"} # {}
        ELSE /\ Len(last.ret) > 0
             /\ \A i \in 1..Len(last.ret) : last.ret[i].type = "EOF" <=> i = Len(last.ret)
             /\ \A i \in 1..Len(last.ret) :
                   Chars(TokenText(last.ret[i])) \subseteq
                      Chars(ToUpperCase(last.op)) \cup {"\n", "\t"}
             /\ \A c \in Chars(ToUpperCase(last.op)) \ {" ", "'", "\\"} :
                   \E i \in 1..Len(last.ret) : c \in Chars(TokenText(last.ret[i]))

(***************************************************************************)
(* Properties of the parser                                                *)
(***************************************************************************)
\* the tokens of every statement
Lexed == [sql \in Statements |-> tokenize(sql).tokens]

\* C27: a statement that execute() has taken past the parser was consumed
\* whole: the token the parser stopped at is the Eof token.
ParserConsumesAll ==
    (database.loaded /\ last.op \in Statements /\ Parsed[last.op].ok)
        => Cur(Lexed[last.op], Parsed[last.op].pos).type = "EOF"

UpdateFailureSemantics ==
    [][\A oldValue \in IndexValues, newValue \in IndexValues, rowIndex \in Positions :
          last'.op = <<"update", oldValue, newValue, rowIndex>> =>
             /\ oldValue = newValue => last'.ok /\ database' = database
             /\ (oldValue # newValue /\ IndexHas(database, newValue)) =>
                   /\ ~last'.ok
                   /\ last'.err = DuplicateError(database)
                   /\ IndexFind(database', oldValue) = <<>>
                   /\ IndexFind(database', newValue) = IndexFind(database, newValue)]_vars

\* C30: an index read back from its serialization has the column name and
\* the flags of the original and answers find and has as the original does,
\* for every value that was added
IndexRoundTrip ==
    last.op = <<"fromJSON">> =>
        /\ last.ret.columnName = database.columnName
        /\ last.ret.isPrimaryKey = database.isPrimaryKey
        /\ last.ret.isUnique = database.isUnique
        /\ \A value \in IndexValues :
              IndexHas(database, value) =>
                 /\ IndexHas(last.ret, value)
                 /\ IndexFind(last.ret, value) = IndexFind(database, value)

====
